---- MODULE Spec2Model ----
(***************************************************************************)
(* A model of criContainerdService.RunPodSandbox: the creation of a pod    *)
(* sandbox as a sequence of provisioning steps, each followed by the       *)
(* registration of a deferred function that undoes it when the call        *)
(* returns an error.  Several requests run concurrently; they share the    *)
(* sandbox name index and the sandbox store.  The helper functions of the  *)
(* file (setupSandboxFiles, parseDNSOptions, unmountSandboxFiles,          *)
(* toCNIPortMappings) are also called directly, in SpecCalls.              *)
(* The second part models the vxlan network of flannel: Run receives       *)
(* batches of lease events and handleSubnetEvents installs or removes the  *)
(* ARP entry, the FDB entry and the route of each lease, in SpecVxlan.     *)
(***************************************************************************)
EXTENDS Integers, Sequences, FiniteSets, TLC

\* ---------------------------------------------------------------- bounds
\* Number of concurrent RunPodSandbox requests.
NumRequests == 2
\* Number of compensating actions that may fail in one behaviour.
MaxCompFailures == 2

Reqs == 1..NumRequests

\* ------------------------------------------------------------ data values
\* The nil error; an error is a pair <<message, cause>>.
Nil == <<>>
Errorf(msg, cause) == <<msg, cause>>
\* The error an external collaborator (OS, CNI plugin, containerd) reports.
Fault == <<"fault", Nil>>

\* The empty path, and the path of the network namespace NewNetNS creates.
EmptyPath == <<>>
NetNSPathOf(id) == <<"/var/run/netns", id>>

\* util.GenerateID: an identifier unique to the request.
GenerateID(r) == r

\* makeSandboxName: the name derived from the pod metadata.
makeSandboxName(metadata) == <<metadata.name, metadata.namespace>>

PodNames == {"pod-a", "pod-b"}
SandboxNames == {makeSandboxName([name |-> n, namespace |-> "default"]) : n \in PodNames}

\* CRI port mappings of a request: one without a host port, one with.
CriPortMappings ==
    << [HostPort |-> 0, ContainerPort |-> 53, Protocol |-> "UDP", HostIp |-> ""],
       [HostPort |-> 8080, ContainerPort |-> 80, Protocol |-> "TCP", HostIp |-> "10.0.0.9"] >>

\* The pod sandbox configurations a request may carry.
Configs ==
    { [metadata |-> [name |-> n, namespace |-> "default"],
       hostNetwork |-> hn, hostIpc |-> hi, hostPid |-> FALSE,
       hostname |-> "h", portMappings |-> CriPortMappings] :
         n \in PodNames, hn \in BOOLEAN, hi \in BOOLEAN }
NoConfig == [metadata |-> [name |-> "", namespace |-> ""],
             hostNetwork |-> FALSE, hostIpc |-> FALSE, hostPid |-> FALSE,
             hostname |-> "", portMappings |-> <<>>]

\* The image config of the sandbox image (c.config.SandboxImage).
ImageConfigs ==
    { [Entrypoint |-> <<"/pause">>, Cmd |-> <<>>],
      [Entrypoint |-> <<>>, Cmd |-> <<"/pause">>] }

\* DNS configs of a pod; NoDns is the nil DnsConfig.
NoDns == [present |-> FALSE, Servers |-> <<>>, Searches |-> <<>>, Options |-> <<>>]
DnsConfigs ==
    { NoDns,
      [present |-> TRUE, Servers |-> <<>>, Searches |-> <<>>, Options |-> <<>>],
      [present |-> TRUE, Servers |-> <<"10.0.0.1", "10.0.0.2">>,
       Searches |-> <<"a.svc", "b.svc">>, Options |-> <<"ndots:5">>],
      [present |-> TRUE, Servers |-> <<"10.0.0.1">>,
       Searches |-> <<"a", "b", "c", "d", "e", "f", "g">>, Options |-> <<>>] }

maxDNSSearches == 6

\* ------------------------------------------------------------ pure helpers
ToLower(s) ==
    CASE s = "TCP" -> "tcp"
      [] s = "UDP" -> "udp"
      [] OTHER -> s

\* A mutation of toCNIPortMappings: only a negative host port is skipped.
toCNIPortMappings_KeepsZero(criPortMappings) ==
    LET kept == SelectSeq(criPortMappings, LAMBDA mapping : ~(mapping.HostPort < 0))
    IN [i \in 1..Len(kept) |->
          [HostPort |-> kept[i].HostPort,
           ContainerPort |-> kept[i].ContainerPort,
           Protocol |-> ToLower(kept[i].Protocol),
           HostIP |-> kept[i].HostIp]]

\* toCNIPortMappings converts CRI port mappings to CNI.
RECURSIVE toCNIPortMappings(_)
toCNIPortMappings(criPortMappings) ==
    IF criPortMappings = <<>> THEN <<>>
    ELSE LET mapping == Head(criPortMappings)
             rest == toCNIPortMappings(Tail(criPortMappings))
         IN IF mapping.HostPort <= 0 THEN rest
            ELSE << [HostPort |-> mapping.HostPort,
                     ContainerPort |-> mapping.ContainerPort,
                     Protocol |-> ToLower(mapping.Protocol),
                     HostIP |-> mapping.HostIp] >> \o rest

\* strings.Join
RECURSIVE Join(_, _)
Join(elems, sep) ==
    IF elems = <<>> THEN ""
    ELSE IF Len(elems) = 1 THEN elems[1]
    ELSE elems[1] \o sep \o Join(Tail(elems), sep)

\* A mutation of parseDNSOptions: the servers share one nameserver line.
parseDNSOptions_OneNameserverLine(servers, searches, options) ==
    IF Len(searches) > maxDNSSearches
    THEN [content |-> "", err |-> Errorf("DNSOption.Searches has more than 6 domains", Nil)]
    ELSE [content |->
            (IF Len(searches) > 0 THEN "search " \o Join(searches, " ") \o "\n" ELSE "")
         \o (IF Len(servers) > 0 THEN "nameserver " \o Join(servers, " ") \o "\n" ELSE "")
         \o (IF Len(options) > 0 THEN "options " \o Join(options, " ") \o "\n" ELSE ""),
          err |-> Nil]

\* parseDNSOptions: the resolv.conf content of a DNS config, or an error.
parseDNSOptions(servers, searches, options) ==
    IF Len(searches) > maxDNSSearches
    THEN [content |-> "", err |-> Errorf("DNSOption.Searches has more than 6 domains", Nil)]
    ELSE [content |->
            (IF Len(searches) > 0 THEN "search " \o Join(searches, " ") \o "\n" ELSE "")
         \o (IF Len(servers) > 0 THEN "nameserver " \o Join(servers, "\nnameserver ") \o "\n" ELSE "")
         \o (IF Len(options) > 0 THEN "options " \o Join(options, " ") \o "\n" ELSE ""),
          err |-> Nil]

\* The Linux namespaces of the default runtime spec.
DefaultNamespaces ==
    { [type |-> t, path |-> EmptyPath] : t \in {"pid", "network", "ipc", "uts", "mount"} }
RemoveLinuxNamespace(nss, t) == { n \in nss : n.type # t }
AddOrReplaceLinuxNamespace(nss, t, path) ==
    RemoveLinuxNamespace(nss, t) \cup { [type |-> t, path |-> path] }

NoSpec == [args |-> <<>>, hostname |-> "", namespaces |-> {}]

\* generateSandboxContainerSpec; fault names the helper that fails, if any.
SpecFaults == {"none", "defaultRuntimeSpec", "initSelinuxOpts"}
\* A mutation of generateSandboxContainerSpec: the network namespace entry
\* is set whatever the namespace options are.
generateSandboxContainerSpec_KeepsNetwork(id, config, imageConfig, nsPath, fault) ==
    IF fault = "defaultRuntimeSpec" THEN [spec |-> NoSpec, err |-> Fault]
    ELSE IF Len(imageConfig.Entrypoint) = 0
    THEN [spec |-> NoSpec, err |-> Errorf("invalid empty entrypoint in image config", Nil)]
    ELSE LET ns1 == AddOrReplaceLinuxNamespace(DefaultNamespaces, "network", nsPath)
             ns2 == IF config.hostPid THEN RemoveLinuxNamespace(ns1, "pid") ELSE ns1
             ns3 == IF config.hostIpc THEN RemoveLinuxNamespace(ns2, "ipc") ELSE ns2
         IN IF fault = "initSelinuxOpts"
            THEN [spec |-> NoSpec, err |-> Errorf("failed to init selinux options", Fault)]
            ELSE [spec |-> [args |-> imageConfig.Entrypoint \o imageConfig.Cmd,
                            hostname |-> config.hostname,
                            namespaces |-> ns3],
                  err |-> Nil]

\* A mutation of generateSandboxContainerSpec: the entrypoint is not checked.
generateSandboxContainerSpec_NoEntrypointCheck(id, config, imageConfig, nsPath, fault) ==
    IF fault = "defaultRuntimeSpec" THEN [spec |-> NoSpec, err |-> Fault]
    ELSE IF FALSE
    THEN [spec |-> NoSpec, err |-> Errorf("invalid empty entrypoint in image config", Nil)]
    ELSE LET ns1 == IF config.hostNetwork
                    THEN RemoveLinuxNamespace(DefaultNamespaces, "network")
                    ELSE AddOrReplaceLinuxNamespace(DefaultNamespaces, "network", nsPath)
             ns2 == IF config.hostPid THEN RemoveLinuxNamespace(ns1, "pid") ELSE ns1
             ns3 == IF config.hostIpc THEN RemoveLinuxNamespace(ns2, "ipc") ELSE ns2
         IN IF fault = "initSelinuxOpts"
            THEN [spec |-> NoSpec, err |-> Errorf("failed to init selinux options", Fault)]
            ELSE [spec |-> [args |-> imageConfig.Entrypoint \o imageConfig.Cmd,
                            hostname |-> config.hostname,
                            namespaces |-> ns3],
                  err |-> Nil]

generateSandboxContainerSpec(id, config, imageConfig, nsPath, fault) ==
    IF fault = "defaultRuntimeSpec" THEN [spec |-> NoSpec, err |-> Fault]
    ELSE IF Len(imageConfig.Entrypoint) = 0
    THEN [spec |-> NoSpec, err |-> Errorf("invalid empty entrypoint in image config", Nil)]
    ELSE LET ns1 == IF config.hostNetwork
                    THEN RemoveLinuxNamespace(DefaultNamespaces, "network")
                    ELSE AddOrReplaceLinuxNamespace(DefaultNamespaces, "network", nsPath)
             ns2 == IF config.hostPid THEN RemoveLinuxNamespace(ns1, "pid") ELSE ns1
             ns3 == IF config.hostIpc THEN RemoveLinuxNamespace(ns2, "ipc") ELSE ns2
         IN IF fault = "initSelinuxOpts"
            THEN [spec |-> NoSpec, err |-> Errorf("failed to init selinux options", Fault)]
            ELSE [spec |-> [args |-> imageConfig.Entrypoint \o imageConfig.Cmd,
                            hostname |-> config.hostname,
                            namespaces |-> ns3],
                  err |-> Nil]

\* setupSandboxFiles; fault names the OS call that fails, if any.  The result
\* holds the files created under the sandbox root and whether shm is mounted.
FileFaults == {"none", "CopyFile hosts", "resolv.conf", "Stat", "MkdirAll", "Mount"}
HostsFile == [path |-> "etc-hosts", from |-> "host"]
ShmDir == [path |-> "shm", from |-> "mkdir"]
\* A mutation of setupSandboxFiles: the error of parseDNSOptions is not checked.
setupSandboxFiles_IgnoresParseError(config, dnsConfig, fault) ==
    IF fault = "CopyFile hosts"
    THEN [err |-> Errorf("failed to generate sandbox hosts file", Fault),
          files |-> {}, mounted |-> FALSE]
    ELSE LET parsed == IF dnsConfig.present
                       THEN parseDNSOptions(dnsConfig.Servers, dnsConfig.Searches, dnsConfig.Options)
                       ELSE [content |-> "", err |-> Nil]
             resolv == [path |-> "resolv.conf",
                        from |-> IF parsed.content = "" THEN "host" ELSE "dns"]
         IN IF FALSE
            THEN [err |-> Errorf("failed to parse sandbox DNSConfig", parsed.err),
                  files |-> {HostsFile}, mounted |-> FALSE]
            ELSE IF fault = "resolv.conf"
            THEN [err |-> Errorf(IF parsed.content = ""
                                 THEN "failed to copy host's resolv.conf"
                                 ELSE "failed to write resolv content", Fault),
                  files |-> {HostsFile}, mounted |-> FALSE]
            ELSE IF config.hostIpc
            THEN IF fault = "Stat"
                 THEN [err |-> Errorf("host /dev/shm is not available for host ipc", Fault),
                       files |-> {HostsFile, resolv}, mounted |-> FALSE]
                 ELSE [err |-> Nil, files |-> {HostsFile, resolv}, mounted |-> FALSE]
            ELSE IF fault = "MkdirAll"
            THEN [err |-> Errorf("failed to create sandbox shm", Fault),
                  files |-> {HostsFile, resolv}, mounted |-> FALSE]
            ELSE IF fault = "Mount"
            THEN [err |-> Errorf("failed to mount sandbox shm", Fault),
                  files |-> {HostsFile, resolv, ShmDir}, mounted |-> FALSE]
            ELSE [err |-> Nil, files |-> {HostsFile, resolv, ShmDir}, mounted |-> TRUE]

\* A mutation of setupSandboxFiles: the resolv.conf is written whenever the
\* pod has a DNS config, whatever its content.
setupSandboxFiles_WritesWheneverConfigured(config, dnsConfig, fault) ==
    IF fault = "CopyFile hosts"
    THEN [err |-> Errorf("failed to generate sandbox hosts file", Fault),
          files |-> {}, mounted |-> FALSE]
    ELSE LET parsed == IF dnsConfig.present
                       THEN parseDNSOptions(dnsConfig.Servers, dnsConfig.Searches, dnsConfig.Options)
                       ELSE [content |-> "", err |-> Nil]
             resolv == [path |-> "resolv.conf",
                        from |-> IF ~dnsConfig.present THEN "host" ELSE "dns"]
         IN IF parsed.err # Nil
            THEN [err |-> Errorf("failed to parse sandbox DNSConfig", parsed.err),
                  files |-> {HostsFile}, mounted |-> FALSE]
            ELSE IF fault = "resolv.conf"
            THEN [err |-> Errorf(IF parsed.content = ""
                                 THEN "failed to copy host's resolv.conf"
                                 ELSE "failed to write resolv content", Fault),
                  files |-> {HostsFile}, mounted |-> FALSE]
            ELSE IF config.hostIpc
            THEN IF fault = "Stat"
                 THEN [err |-> Errorf("host /dev/shm is not available for host ipc", Fault),
                       files |-> {HostsFile, resolv}, mounted |-> FALSE]
                 ELSE [err |-> Nil, files |-> {HostsFile, resolv}, mounted |-> FALSE]
            ELSE IF fault = "MkdirAll"
            THEN [err |-> Errorf("failed to create sandbox shm", Fault),
                  files |-> {HostsFile, resolv}, mounted |-> FALSE]
            ELSE IF fault = "Mount"
            THEN [err |-> Errorf("failed to mount sandbox shm", Fault),
                  files |-> {HostsFile, resolv, ShmDir}, mounted |-> FALSE]
            ELSE [err |-> Nil, files |-> {HostsFile, resolv, ShmDir}, mounted |-> TRUE]

\* A mutation of setupSandboxFiles: the shm directory is created and mounted
\* whatever the IPC namespace option is.
setupSandboxFiles_AlwaysOwnShm(config, dnsConfig, fault) ==
    IF fault = "CopyFile hosts"
    THEN [err |-> Errorf("failed to generate sandbox hosts file", Fault),
          files |-> {}, mounted |-> FALSE]
    ELSE LET parsed == IF dnsConfig.present
                       THEN parseDNSOptions(dnsConfig.Servers, dnsConfig.Searches, dnsConfig.Options)
                       ELSE [content |-> "", err |-> Nil]
             resolv == [path |-> "resolv.conf",
                        from |-> IF parsed.content = "" THEN "host" ELSE "dns"]
         IN IF parsed.err # Nil
            THEN [err |-> Errorf("failed to parse sandbox DNSConfig", parsed.err),
                  files |-> {HostsFile}, mounted |-> FALSE]
            ELSE IF fault = "resolv.conf"
            THEN [err |-> Errorf(IF parsed.content = ""
                                 THEN "failed to copy host's resolv.conf"
                                 ELSE "failed to write resolv content", Fault),
                  files |-> {HostsFile}, mounted |-> FALSE]
            ELSE IF FALSE
            THEN IF fault = "Stat"
                 THEN [err |-> Errorf("host /dev/shm is not available for host ipc", Fault),
                       files |-> {HostsFile, resolv}, mounted |-> FALSE]
                 ELSE [err |-> Nil, files |-> {HostsFile, resolv}, mounted |-> FALSE]
            ELSE IF fault = "MkdirAll"
            THEN [err |-> Errorf("failed to create sandbox shm", Fault),
                  files |-> {HostsFile, resolv}, mounted |-> FALSE]
            ELSE IF fault = "Mount"
            THEN [err |-> Errorf("failed to mount sandbox shm", Fault),
                  files |-> {HostsFile, resolv, ShmDir}, mounted |-> FALSE]
            ELSE [err |-> Nil, files |-> {HostsFile, resolv, ShmDir}, mounted |-> TRUE]

setupSandboxFiles(config, dnsConfig, fault) ==
    IF fault = "CopyFile hosts"
    THEN [err |-> Errorf("failed to generate sandbox hosts file", Fault),
          files |-> {}, mounted |-> FALSE]
    ELSE LET parsed == IF dnsConfig.present
                       THEN parseDNSOptions(dnsConfig.Servers, dnsConfig.Searches, dnsConfig.Options)
                       ELSE [content |-> "", err |-> Nil]
             resolv == [path |-> "resolv.conf",
                        from |-> IF parsed.content = "" THEN "host" ELSE "dns"]
         IN IF parsed.err # Nil
            THEN [err |-> Errorf("failed to parse sandbox DNSConfig", parsed.err),
                  files |-> {HostsFile}, mounted |-> FALSE]
            ELSE IF fault = "resolv.conf"
            THEN [err |-> Errorf(IF parsed.content = ""
                                 THEN "failed to copy host's resolv.conf"
                                 ELSE "failed to write resolv content", Fault),
                  files |-> {HostsFile}, mounted |-> FALSE]
            ELSE IF config.hostIpc
            THEN IF fault = "Stat"
                 THEN [err |-> Errorf("host /dev/shm is not available for host ipc", Fault),
                       files |-> {HostsFile, resolv}, mounted |-> FALSE]
                 ELSE [err |-> Nil, files |-> {HostsFile, resolv}, mounted |-> FALSE]
            ELSE IF fault = "MkdirAll"
            THEN [err |-> Errorf("failed to create sandbox shm", Fault),
                  files |-> {HostsFile, resolv}, mounted |-> FALSE]
            ELSE IF fault = "Mount"
            THEN [err |-> Errorf("failed to mount sandbox shm", Fault),
                  files |-> {HostsFile, resolv, ShmDir}, mounted |-> FALSE]
            ELSE [err |-> Nil, files |-> {HostsFile, resolv, ShmDir}, mounted |-> TRUE]

\* A mutation of unmountSandboxFiles: every error of c.os.Unmount is returned.
unmountSandboxFiles_NoNotExistCheck(config, mounted, osErr) ==
    IF ~config.hostIpc
    THEN IF osErr # "nil"
         THEN [err |-> Fault, mounted |-> mounted]
         ELSE [err |-> Nil, mounted |-> FALSE]
    ELSE [err |-> Nil, mounted |-> mounted]

\* unmountSandboxFiles; osErr is what c.os.Unmount returns ("nil", "ENOENT"
\* or "fault").  The result is the error returned and whether shm stays mounted.
unmountSandboxFiles(config, mounted, osErr) ==
    IF ~config.hostIpc
    THEN IF osErr = "fault"
         THEN [err |-> Fault, mounted |-> mounted]
         ELSE [err |-> Nil, mounted |-> FALSE]
    ELSE [err |-> Nil, mounted |-> mounted]

\* ------------------------------------------------------------------ state
VARIABLES
    scope,         \* the requests, inputs and injected failures of the behaviour
    imageConfig,   \* the image config ensureImageExists returns for the sandbox image
    nameIndex,     \* c.sandboxNameIndex: the pairs <<sandbox name, id>> reserved
    sandboxStore,  \* c.sandboxStore: the sandbox records stored
    netns,         \* ids whose network namespace exists
    cni,           \* pod networks the CNI plugin has set up
    containers,    \* ids whose containerd container exists
    rootDirs,      \* ids whose sandbox root directory exists
    files,         \* id -> files under the sandbox root directory
    mounts,        \* ids whose sandbox shm is mounted
    tasks,         \* id -> "none", "created" or "running"
    pc,            \* request -> position in RunPodSandbox
    cfg,           \* request -> r.GetConfig()
    sandbox,       \* request -> the local sandboxstore.Sandbox object
    podNetwork,    \* request -> the local ocicni.PodNetwork
    spec,          \* request -> the generated runtime spec
    err,           \* request -> the local variable err
    retErr,        \* request -> the named result retErr
    defers,        \* request -> deferred functions, in registration order
    log,           \* request -> the calls made so far, with their results
    call,          \* the last direct call of a helper function, and the shm path
    dev,           \* nw.dev: the vxlan device (its directRouting flag)
    batch,         \* the batch handleSubnetEvents is handling
    evIdx,         \* index in the batch of the event handled now or next
    vpc,           \* position in the body of the loop of handleSubnetEvents
    directRoutingOK, \* the local variable directRoutingOK of the event
    arp,           \* ARP entries of the vxlan device
    fdb,           \* FDB entries of the vxlan device
    routes,        \* routes of the host
    before,        \* the three tables when the handling of the event began
    evCalls,       \* the netlink calls made for the event, with their results
    handled        \* the outcome of each event of the batch handled so far

vxVars == <<dev, batch, evIdx, vpc, directRoutingOK, arp, fdb, routes, before,
            evCalls, handled>>
envVars == <<vxVars, call, scope, imageConfig, nameIndex, sandboxStore, netns, cni, containers,
             rootDirs, files, mounts, tasks>>
reqVars == <<pc, cfg, sandbox, podNetwork, spec, err, retErr, defers, log>>
vars == <<envVars, reqVars>>

NoNet == [Name |-> "", Namespace |-> "", ID |-> 0, NetNS |-> EmptyPath, PortMappings |-> <<>>]
NoSandbox == [ID |-> 0, Name |-> <<>>, NetNS |-> "nil", NetNSPath |-> EmptyPath,
              Container |-> "nil"]

\* One request in flight, with every input and with failing compensations.
SagaScope ==
    [reqs |-> {1}, configs |-> Configs, images |-> ImageConfigs,
     dns |-> DnsConfigs, compFailures |-> MaxCompFailures]
\* No request: the helper functions are called directly, on a pod with or
\* without the host IPC namespace.
CallsScope ==
    [reqs |-> {}, configs |-> { c \in Configs : c.metadata.name = "pod-a" /\ ~c.hostNetwork },
     images |-> { i \in ImageConfigs : i.Cmd = <<>> }, dns |-> DnsConfigs, compFailures |-> 0]
\* Concurrent requests of pods with a private IPC namespace and no DNS config.
ConcurrentScope ==
    [reqs |-> Reqs, configs |-> { c \in Configs : ~c.hostIpc }, images |-> ImageConfigs,
     dns |-> {NoDns}, compFailures |-> 0]

InitScope(sc) ==
    /\ scope = sc
    /\ imageConfig \in sc.images
    /\ nameIndex = {}
    /\ sandboxStore = {}
    /\ netns = {}
    /\ cni = {}
    /\ containers = {}
    /\ rootDirs = {}
    /\ files = [r \in Reqs |-> {}]
    /\ mounts = {}
    /\ tasks = [r \in Reqs |-> "none"]
    /\ pc = [r \in Reqs |-> "idle"]
    /\ cfg = [r \in Reqs |-> NoConfig]
    /\ sandbox = [r \in Reqs |-> NoSandbox]
    /\ podNetwork = [r \in Reqs |-> NoNet]
    /\ spec = [r \in Reqs |-> NoSpec]
    /\ err = [r \in Reqs |-> Nil]
    /\ retErr = [r \in Reqs |-> Nil]
    /\ defers = [r \in Reqs |-> <<>>]
    /\ log = [r \in Reqs |-> <<>>]

\* No helper function has been called directly.
NoCall == [fn |-> "", in |-> <<>>, out |-> <<>>, err |-> Nil, config |-> NoConfig,
           shm |-> "absent", prev |-> [fn |-> "", err |-> Nil]]

\* The vxlan network after newNetwork: no batch received, empty tables.
NoTables == [arp |-> {}, fdb |-> {}, routes |-> {}]
InitNetwork(directRouting) ==
    /\ dev = [directRouting |-> directRouting]
    /\ batch = <<>>
    /\ evIdx = 1
    /\ vpc = "idle"
    /\ directRoutingOK = FALSE
    /\ arp = {}
    /\ fdb = {}
    /\ routes = {}
    /\ before = NoTables
    /\ evCalls = <<>>
    /\ handled = <<>>

Init == InitScope(SagaScope) /\ call = NoCall /\ InitNetwork(FALSE)
InitConcurrent == InitScope(ConcurrentScope) /\ call = NoCall /\ InitNetwork(FALSE)

\* ------------------------------------------------- collaborators' contracts
\* Registrar.Reserve: Conflict when the name is reserved by another id.
RegistrarReserve(index, name, id) ==
    IF \E e \in index : e[1] = name /\ e[2] # id
    THEN [err |-> Errorf("Conflict", Nil), index |-> index]
    ELSE [err |-> Nil, index |-> index \cup {<<name, id>>}]

\* Registrar.ReleaseByName: idempotent, never fails.
RegistrarReleaseByName(index, name) == { e \in index : e[1] # name }

\* Store.Add: DuplicateID when the id is stored already; fault is a failure
\* injected into the call.
StoreAdd(store, sb, fault) ==
    IF fault \/ \E s \in store : s.ID = sb.ID
    THEN [err |-> Errorf("DuplicateID", Nil), store |-> store]
    ELSE [err |-> Nil, store |-> store \cup {sb}]

\* ------------------------------------------------------------ bookkeeping
CompOps == {"task.Delete", "unmountSandboxFiles", "RemoveAll", "container.Delete",
            "TearDownPod", "NetNS.Remove", "ReleaseByName"}

Entry(op, e, net) == [op |-> op, err |-> e, net |-> net]
Logged(r, op, e, net) == [log EXCEPT ![r] = Append(@, Entry(op, e, net))]

\* The compensating actions of request r that have failed.
FailedComps(r) == { i \in DOMAIN log[r] : log[r][i].op \in CompOps /\ log[r][i].err # Nil }
RECURSIVE CompFailuresUpTo(_)
CompFailuresUpTo(n) == IF n = 0 THEN 0 ELSE Cardinality(FailedComps(n)) + CompFailuresUpTo(n - 1)
\* The outcomes a compensating action may have: it may fail while the
\* behaviour has failures left.
CompOutcomes == IF CompFailuresUpTo(NumRequests) < scope.compFailures THEN {Nil, Fault} ELSE {Nil}

\* return nil, e: the named result is set and the deferred functions run.
Return(r, e) ==
    /\ retErr' = [retErr EXCEPT ![r] = e]
    /\ pc' = [pc EXCEPT ![r] = "return"]

\* defer f
Defer(r, f) == defers' = [defers EXCEPT ![r] = Append(@, f)]

\* A mutation of TopDefer: the deferred functions run first-in first-out.
TopDeferFifo(r) == defers[r][1]

\* The deferred function that runs next: the last one registered.
TopDefer(r) == defers[r][Len(defers[r])]
\* The function that ran leaves the stack (each is registered once).
PopDefer(r) == defers' = [defers EXCEPT ![r] = SelectSeq(@, LAMBDA f : f # TopDefer(r))]
Running(r, f) == pc[r] = "return" /\ defers[r] # <<>> /\ TopDefer(r) = f

\* A mutation of ReturnsError: the deferred functions test the local err.
ReturnsErrorLocal(r) == err[r] # Nil

\* A mutation of ReturnsError: the deferred functions undo their steps
\* whatever the call returns.
ReturnsErrorOrNot(r) == TRUE

\* The condition under which a deferred function undoes its step.
ReturnsError(r) == retErr[r] # Nil

\* --------------------------------------------------------- RunPodSandbox
\* The request arrives: config := r.GetConfig(), id and name are generated.
RunPodSandbox(r) ==
    /\ pc[r] = "idle"
    /\ r \in scope.reqs
    /\ \E config \in scope.configs : cfg' = [cfg EXCEPT ![r] = config]
    /\ pc' = [pc EXCEPT ![r] = "Reserve"]
    /\ UNCHANGED <<envVars, sandbox, podNetwork, spec, err, retErr, defers, log>>

\* A mutation of Reserve: the error of Reserve is not checked.
Reserve_IgnoresConflict(r) ==
    /\ pc[r] = "Reserve"
    /\ LET id == GenerateID(r)
           name == makeSandboxName(cfg[r].metadata)
           res == RegistrarReserve(nameIndex, name, id)
       IN /\ nameIndex' = res.index
          /\ log' = Logged(r, "Reserve", res.err, NoNet)
          /\ IF FALSE
             THEN /\ Return(r, Errorf("failed to reserve sandbox name", res.err))
                  /\ UNCHANGED <<sandbox, defers>>
             ELSE /\ Defer(r, "ReleaseByName")
                  /\ sandbox' = [sandbox EXCEPT ![r] =
                         [ID |-> id, Name |-> name, NetNS |-> "nil",
                          NetNSPath |-> EmptyPath, Container |-> "nil"]]
                  /\ pc' = [pc EXCEPT ![r] = "ensureImageExists"]
                  /\ UNCHANGED retErr
    /\ UNCHANGED <<vxVars, call, scope, imageConfig, sandboxStore, netns, cni, containers, rootDirs,
                   files, mounts, tasks, cfg, podNetwork, spec, err>>

\* A mutation of Reserve: the release of the name is not deferred.
Reserve_NoDefer(r) ==
    /\ pc[r] = "Reserve"
    /\ LET id == GenerateID(r)
           name == makeSandboxName(cfg[r].metadata)
           res == RegistrarReserve(nameIndex, name, id)
       IN /\ nameIndex' = res.index
          /\ log' = Logged(r, "Reserve", res.err, NoNet)
          /\ IF res.err # Nil
             THEN /\ Return(r, Errorf("failed to reserve sandbox name", res.err))
                  /\ UNCHANGED <<sandbox, defers>>
             ELSE /\ UNCHANGED defers
                  /\ sandbox' = [sandbox EXCEPT ![r] =
                         [ID |-> id, Name |-> name, NetNS |-> "nil",
                          NetNSPath |-> EmptyPath, Container |-> "nil"]]
                  /\ pc' = [pc EXCEPT ![r] = "ensureImageExists"]
                  /\ UNCHANGED retErr
    /\ UNCHANGED <<vxVars, call, scope, imageConfig, sandboxStore, netns, cni, containers, rootDirs,
                   files, mounts, tasks, cfg, podNetwork, spec, err>>

\* A mutation of Reserve: the release of the name is deferred before the
\* result of Reserve is checked.
Reserve_DefersFirst(r) ==
    /\ pc[r] = "Reserve"
    /\ LET id == GenerateID(r)
           name == makeSandboxName(cfg[r].metadata)
           res == RegistrarReserve(nameIndex, name, id)
       IN /\ nameIndex' = res.index
          /\ log' = Logged(r, "Reserve", res.err, NoNet)
          /\ IF res.err # Nil
             THEN /\ Return(r, Errorf("failed to reserve sandbox name", res.err))
                  /\ Defer(r, "ReleaseByName")
                  /\ UNCHANGED sandbox
             ELSE /\ Defer(r, "ReleaseByName")
                  /\ sandbox' = [sandbox EXCEPT ![r] =
                         [ID |-> id, Name |-> name, NetNS |-> "nil",
                          NetNSPath |-> EmptyPath, Container |-> "nil"]]
                  /\ pc' = [pc EXCEPT ![r] = "ensureImageExists"]
                  /\ UNCHANGED retErr
    /\ UNCHANGED <<vxVars, call, scope, imageConfig, sandboxStore, netns, cni, containers, rootDirs,
                   files, mounts, tasks, cfg, podNetwork, spec, err>>

\* c.sandboxNameIndex.Reserve(name, id); on success the release of the name is
\* deferred and the initial sandbox object is created.
Reserve(r) ==
    /\ pc[r] = "Reserve"
    /\ LET id == GenerateID(r)
           name == makeSandboxName(cfg[r].metadata)
           res == RegistrarReserve(nameIndex, name, id)
       IN /\ nameIndex' = res.index
          /\ log' = Logged(r, "Reserve", res.err, NoNet)
          /\ IF res.err # Nil
             THEN /\ Return(r, Errorf("failed to reserve sandbox name", res.err))
                  /\ UNCHANGED <<sandbox, defers>>
             ELSE /\ Defer(r, "ReleaseByName")
                  /\ sandbox' = [sandbox EXCEPT ![r] =
                         [ID |-> id, Name |-> name, NetNS |-> "nil",
                          NetNSPath |-> EmptyPath, Container |-> "nil"]]
                  /\ pc' = [pc EXCEPT ![r] = "ensureImageExists"]
                  /\ UNCHANGED retErr
    /\ UNCHANGED <<vxVars, call, scope, imageConfig, sandboxStore, netns, cni, containers, rootDirs,
                   files, mounts, tasks, cfg, podNetwork, spec, err>>

\* c.ensureImageExists(ctx, c.config.SandboxImage)
ensureImageExists(r) ==
    /\ pc[r] = "ensureImageExists"
    /\ \E e \in {Nil, Fault} :
         /\ err' = [err EXCEPT ![r] = e]
         /\ log' = Logged(r, "ensureImageExists", e, NoNet)
         /\ IF e # Nil
            THEN Return(r, Errorf("failed to get sandbox image", e))
            ELSE /\ pc' = [pc EXCEPT ![r] =
                       IF cfg[r].hostNetwork THEN "generateSandboxContainerSpec"
                                             ELSE "NewNetNS"]
                 /\ UNCHANGED retErr
    /\ UNCHANGED <<envVars, cfg, sandbox, podNetwork, spec, defers>>

\* A mutation of NewNetNS: the path of the namespace is not recorded.
NewNetNS_NoPath(r) ==
    /\ pc[r] = "NewNetNS"
    /\ \E e \in {Nil, Fault} :
         /\ err' = [err EXCEPT ![r] = e]
         /\ log' = Logged(r, "NewNetNS", e, NoNet)
         /\ IF e # Nil
            THEN /\ Return(r, Errorf("failed to create network namespace for sandbox", e))
                 /\ UNCHANGED <<netns, sandbox, defers>>
            ELSE /\ netns' = netns \cup {sandbox[r].ID}
                 /\ sandbox' = [sandbox EXCEPT ![r].NetNS = "handle"]
                 /\ Defer(r, "NetNS.Remove")
                 /\ pc' = [pc EXCEPT ![r] = "SetUpPod"]
                 /\ UNCHANGED retErr
    /\ UNCHANGED <<vxVars, call, scope, imageConfig, nameIndex, sandboxStore, cni, containers, rootDirs,
                   files, mounts, tasks, cfg, podNetwork, spec>>

\* sandboxstore.NewNetNS(): on success the handle and its path are recorded in
\* the sandbox object and the removal of the namespace is deferred.
NewNetNS(r) ==
    /\ pc[r] = "NewNetNS"
    /\ \E e \in {Nil, Fault} :
         /\ err' = [err EXCEPT ![r] = e]
         /\ log' = Logged(r, "NewNetNS", e, NoNet)
         /\ IF e # Nil
            THEN /\ Return(r, Errorf("failed to create network namespace for sandbox", e))
                 /\ UNCHANGED <<netns, sandbox, defers>>
            ELSE /\ netns' = netns \cup {sandbox[r].ID}
                 /\ sandbox' = [sandbox EXCEPT ![r].NetNS = "handle",
                                               ![r].NetNSPath = NetNSPathOf(sandbox[r].ID)]
                 /\ Defer(r, "NetNS.Remove")
                 /\ pc' = [pc EXCEPT ![r] = "SetUpPod"]
                 /\ UNCHANGED retErr
    /\ UNCHANGED <<vxVars, call, scope, imageConfig, nameIndex, sandboxStore, cni, containers, rootDirs,
                   files, mounts, tasks, cfg, podNetwork, spec>>

\* A mutation of SetUpPod: the teardown is deferred before the result of
\* SetUpPod is checked.
SetUpPod_DefersFirst(r) ==
    /\ pc[r] = "SetUpPod"
    /\ LET net == [Name |-> cfg[r].metadata.name,
                   Namespace |-> cfg[r].metadata.namespace,
                   ID |-> sandbox[r].ID,
                   NetNS |-> sandbox[r].NetNSPath,
                   PortMappings |-> toCNIPortMappings(cfg[r].portMappings)]
       IN /\ podNetwork' = [podNetwork EXCEPT ![r] = net]
          /\ \E e \in {Nil, Fault} :
               /\ err' = [err EXCEPT ![r] = e]
               /\ log' = Logged(r, "SetUpPod", e, net)
               /\ IF e # Nil
                  THEN /\ Return(r, Errorf("failed to setup network for sandbox", e))
                       /\ Defer(r, "TearDownPod")
                       /\ UNCHANGED cni
                  ELSE /\ cni' = cni \cup {net}
                       /\ Defer(r, "TearDownPod")
                       /\ pc' = [pc EXCEPT ![r] = "generateSandboxContainerSpec"]
                       /\ UNCHANGED retErr
    /\ UNCHANGED <<vxVars, call, scope, imageConfig, nameIndex, sandboxStore, netns, containers, rootDirs,
                   files, mounts, tasks, cfg, sandbox, spec>>

\* c.netPlugin.SetUpPod(podNetwork); on success the teardown is deferred.
SetUpPod(r) ==
    /\ pc[r] = "SetUpPod"
    /\ LET net == [Name |-> cfg[r].metadata.name,
                   Namespace |-> cfg[r].metadata.namespace,
                   ID |-> sandbox[r].ID,
                   NetNS |-> sandbox[r].NetNSPath,
                   PortMappings |-> toCNIPortMappings(cfg[r].portMappings)]
       IN /\ podNetwork' = [podNetwork EXCEPT ![r] = net]
          /\ \E e \in {Nil, Fault} :
               /\ err' = [err EXCEPT ![r] = e]
               /\ log' = Logged(r, "SetUpPod", e, net)
               /\ IF e # Nil
                  THEN /\ Return(r, Errorf("failed to setup network for sandbox", e))
                       /\ UNCHANGED <<cni, defers>>
                  ELSE /\ cni' = cni \cup {net}
                       /\ Defer(r, "TearDownPod")
                       /\ pc' = [pc EXCEPT ![r] = "generateSandboxContainerSpec"]
                       /\ UNCHANGED retErr
    /\ UNCHANGED <<vxVars, call, scope, imageConfig, nameIndex, sandboxStore, netns, containers, rootDirs,
                   files, mounts, tasks, cfg, sandbox, spec>>

\* c.generateSandboxContainerSpec(id, config, image.Config, sandbox.NetNSPath)
GenerateSpec(r) ==
    /\ pc[r] = "generateSandboxContainerSpec"
    /\ \E fault \in SpecFaults :
         LET res == generateSandboxContainerSpec(sandbox[r].ID, cfg[r], imageConfig,
                                                 sandbox[r].NetNSPath, fault)
         IN /\ err' = [err EXCEPT ![r] = res.err]
            /\ log' = Logged(r, "generateSandboxContainerSpec", res.err, NoNet)
            /\ IF res.err # Nil
               THEN /\ Return(r, Errorf("failed to generate sandbox container spec", res.err))
                    /\ UNCHANGED spec
               ELSE /\ spec' = [spec EXCEPT ![r] = res.spec]
                    /\ pc' = [pc EXCEPT ![r] = "generateSeccompSpecOpts"]
                    /\ UNCHANGED retErr
    /\ UNCHANGED <<envVars, cfg, sandbox, podNetwork, defers>>

\* generateSeccompSpecOpts(profile path, privileged, c.seccompEnabled)
GenerateSeccompSpecOpts(r) ==
    /\ pc[r] = "generateSeccompSpecOpts"
    /\ \E e \in {Nil, Fault} :
         /\ err' = [err EXCEPT ![r] = e]
         /\ log' = Logged(r, "generateSeccompSpecOpts", e, NoNet)
         /\ IF e # Nil
            THEN Return(r, Errorf("failed to generate seccomp spec opts", e))
            ELSE /\ pc' = [pc EXCEPT ![r] = "NewContainer"]
                 /\ UNCHANGED retErr
    /\ UNCHANGED <<envVars, cfg, sandbox, podNetwork, spec, defers>>

\* A mutation of NewContainer: the call is made again after it failed.
NewContainer_Retries(r) ==
    /\ pc[r] = "NewContainer"
    /\ \E e \in {Nil, Fault} :
         /\ err' = [err EXCEPT ![r] = e]
         /\ log' = Logged(r, "NewContainer", e, NoNet)
         /\ IF e # Nil
            THEN UNCHANGED <<containers, defers, retErr, pc>>
            ELSE /\ containers' = containers \cup {sandbox[r].ID}
                 /\ Defer(r, "container.Delete")
                 /\ pc' = [pc EXCEPT ![r] = "MkdirAll"]
                 /\ UNCHANGED retErr
    /\ UNCHANGED <<vxVars, call, scope, imageConfig, nameIndex, sandboxStore, netns, cni, rootDirs,
                   files, mounts, tasks, cfg, sandbox, podNetwork, spec>>

\* c.client.NewContainer(ctx, id, opts...); on success its deletion is deferred.
NewContainer(r) ==
    /\ pc[r] = "NewContainer"
    /\ \E e \in {Nil, Fault} :
         /\ err' = [err EXCEPT ![r] = e]
         /\ log' = Logged(r, "NewContainer", e, NoNet)
         /\ IF e # Nil
            THEN /\ Return(r, Errorf("failed to create containerd container", e))
                 /\ UNCHANGED <<containers, defers>>
            ELSE /\ containers' = containers \cup {sandbox[r].ID}
                 /\ Defer(r, "container.Delete")
                 /\ pc' = [pc EXCEPT ![r] = "MkdirAll"]
                 /\ UNCHANGED retErr
    /\ UNCHANGED <<vxVars, call, scope, imageConfig, nameIndex, sandboxStore, netns, cni, rootDirs,
                   files, mounts, tasks, cfg, sandbox, podNetwork, spec>>

\* c.os.MkdirAll(sandboxRootDir, 0755); on success its removal is deferred.
\* The error is local to the if statement: err is not assigned.
MkdirAll(r) ==
    /\ pc[r] = "MkdirAll"
    /\ \E e \in {Nil, Fault} :
         /\ log' = Logged(r, "MkdirAll", e, NoNet)
         /\ IF e # Nil
            THEN /\ Return(r, Errorf("failed to create sandbox root directory", e))
                 /\ UNCHANGED <<rootDirs, defers>>
            ELSE /\ rootDirs' = rootDirs \cup {sandbox[r].ID}
                 /\ Defer(r, "RemoveAll")
                 /\ pc' = [pc EXCEPT ![r] = "setupSandboxFiles"]
                 /\ UNCHANGED retErr
    /\ UNCHANGED <<vxVars, call, scope, imageConfig, nameIndex, sandboxStore, netns, cni, containers,
                   files, mounts, tasks, cfg, sandbox, podNetwork, spec, err>>

\* c.setupSandboxFiles(sandboxRootDir, config); on success the unmount is
\* deferred.  The DNS config is the part of the config read here.
SetupSandboxFiles(r) ==
    /\ pc[r] = "setupSandboxFiles"
    /\ \E dnsConfig \in scope.dns, fault \in FileFaults :
         LET res == setupSandboxFiles(cfg[r], dnsConfig, fault)
             id == sandbox[r].ID
         IN /\ fault # "none" => res.err # Nil
            /\ err' = [err EXCEPT ![r] = res.err]
            /\ log' = Logged(r, "setupSandboxFiles", res.err, NoNet)
            /\ files' = [files EXCEPT ![id] = res.files]
            /\ mounts' = IF res.mounted THEN mounts \cup {id} ELSE mounts
            /\ IF res.err # Nil
               THEN /\ Return(r, Errorf("failed to setup sandbox files", res.err))
                    /\ UNCHANGED defers
               ELSE /\ Defer(r, "unmountSandboxFiles")
                    /\ pc' = [pc EXCEPT ![r] = "NewTask"]
                    /\ UNCHANGED retErr
    /\ UNCHANGED <<vxVars, call, scope, imageConfig, nameIndex, sandboxStore, netns, cni, containers,
                   rootDirs, tasks, cfg, sandbox, podNetwork, spec>>

\* A mutation of NewTask: the deletion of the task is deferred before the
\* result of NewTask is checked.
NewTask_DefersFirst(r) ==
    /\ pc[r] = "NewTask"
    /\ \E e \in {Nil, Fault} :
         /\ err' = [err EXCEPT ![r] = e]
         /\ log' = Logged(r, "NewTask", e, NoNet)
         /\ IF e # Nil
            THEN /\ Return(r, Errorf("failed to create task for sandbox", e))
                 /\ Defer(r, "task.Delete")
                 /\ UNCHANGED tasks
            ELSE /\ tasks' = [tasks EXCEPT ![sandbox[r].ID] = "created"]
                 /\ Defer(r, "task.Delete")
                 /\ pc' = [pc EXCEPT ![r] = "task.Start"]
                 /\ UNCHANGED retErr
    /\ UNCHANGED <<vxVars, call, scope, imageConfig, nameIndex, sandboxStore, netns, cni, containers,
                   rootDirs, files, mounts, cfg, sandbox, podNetwork, spec>>

\* container.NewTask(ctx, containerd.NullIO); on success its deletion is deferred.
NewTask(r) ==
    /\ pc[r] = "NewTask"
    /\ \E e \in {Nil, Fault} :
         /\ err' = [err EXCEPT ![r] = e]
         /\ log' = Logged(r, "NewTask", e, NoNet)
         /\ IF e # Nil
            THEN /\ Return(r, Errorf("failed to create task for sandbox", e))
                 /\ UNCHANGED <<tasks, defers>>
            ELSE /\ tasks' = [tasks EXCEPT ![sandbox[r].ID] = "created"]
                 /\ Defer(r, "task.Delete")
                 /\ pc' = [pc EXCEPT ![r] = "task.Start"]
                 /\ UNCHANGED retErr
    /\ UNCHANGED <<vxVars, call, scope, imageConfig, nameIndex, sandboxStore, netns, cni, containers,
                   rootDirs, files, mounts, cfg, sandbox, podNetwork, spec>>

\* A mutation of TaskStart: the error of task.Start is not checked.
TaskStart_IgnoresError(r) ==
    /\ pc[r] = "task.Start"
    /\ \E e \in {Nil, Fault} :
         /\ err' = [err EXCEPT ![r] = e]
         /\ log' = Logged(r, "task.Start", e, NoNet)
         /\ IF FALSE
            THEN /\ Return(r, Errorf("failed to start sandbox container task", e))
                 /\ UNCHANGED tasks
            ELSE /\ tasks' = [tasks EXCEPT ![sandbox[r].ID] = "running"]
                 /\ pc' = [pc EXCEPT ![r] = "sandboxStore.Add"]
                 /\ UNCHANGED retErr
    /\ UNCHANGED <<vxVars, call, scope, imageConfig, nameIndex, sandboxStore, netns, cni, containers,
                   rootDirs, files, mounts, cfg, sandbox, podNetwork, spec, defers>>

\* task.Start(ctx)
TaskStart(r) ==
    /\ pc[r] = "task.Start"
    /\ \E e \in {Nil, Fault} :
         /\ err' = [err EXCEPT ![r] = e]
         /\ log' = Logged(r, "task.Start", e, NoNet)
         /\ IF e # Nil
            THEN /\ Return(r, Errorf("failed to start sandbox container task", e))
                 /\ UNCHANGED tasks
            ELSE /\ tasks' = [tasks EXCEPT ![sandbox[r].ID] = "running"]
                 /\ pc' = [pc EXCEPT ![r] = "sandboxStore.Add"]
                 /\ UNCHANGED retErr
    /\ UNCHANGED <<vxVars, call, scope, imageConfig, nameIndex, sandboxStore, netns, cni, containers,
                   rootDirs, files, mounts, cfg, sandbox, podNetwork, spec, defers>>

\* sandbox.Container = container; c.sandboxStore.Add(sandbox); return the
\* response.  The error of Add is local to the if statement.
SandboxStoreAdd(r) ==
    /\ pc[r] = "sandboxStore.Add"
    /\ \E fault \in BOOLEAN :
         LET sb == [sandbox[r] EXCEPT !.Container = "container"]
             res == StoreAdd(sandboxStore, sb, fault)
         IN /\ sandbox' = [sandbox EXCEPT ![r] = sb]
            /\ sandboxStore' = res.store
            /\ log' = Logged(r, "sandboxStore.Add", res.err, NoNet)
            /\ IF res.err # Nil
               THEN Return(r, Errorf("failed to add sandbox into store", res.err))
               ELSE Return(r, Nil)
    /\ UNCHANGED <<vxVars, call, scope, imageConfig, nameIndex, netns, cni, containers, rootDirs,
                   files, mounts, tasks, cfg, podNetwork, spec, err, defers>>

\* ----------------------------------------------------- deferred functions
\* defer (line 244): task.Delete(ctx, containerd.WithProcessKill)
DeferredTaskDelete(r) ==
    /\ Running(r, "task.Delete")
    /\ PopDefer(r)
    /\ IF ReturnsError(r)
       THEN \E e \in CompOutcomes :
              /\ log' = Logged(r, "task.Delete", e, NoNet)
              /\ tasks' = IF e = Nil THEN [tasks EXCEPT ![sandbox[r].ID] = "none"] ELSE tasks
       ELSE UNCHANGED <<log, tasks>>
    /\ UNCHANGED <<vxVars, call, scope, imageConfig, nameIndex, sandboxStore, netns, cni, containers,
                   rootDirs, files, mounts, pc, cfg, sandbox, podNetwork, spec, err, retErr>>

\* c.os.Unmount on the sandbox shm path: a path that is not mounted is not an
\* error, a path that does not exist is ENOENT, the unmount itself may fail.
OsUnmountResults(shm) ==
    CASE shm = "mounted" -> {"nil", "fault"}
      [] shm = "dir" -> {"nil"}
      [] OTHER -> {"ENOENT"}

\* The results c.os.Unmount may have for the sandbox shm of request r.
UnmountResults(r) ==
    LET id == sandbox[r].ID
        shm == IF id \in mounts THEN "mounted"
               ELSE IF ShmDir \in files[id] THEN "dir" ELSE "absent"
    IN IF cfg[r].hostIpc THEN {"nil"}
       ELSE { o \in OsUnmountResults(shm) : o = "fault" => Fault \in CompOutcomes }

\* A mutation of DeferredUnmountSandboxFiles: the result of the unmount is
\* assigned to retErr.
DeferredUnmountSandboxFiles_AssignsRetErr(r) ==
    /\ Running(r, "unmountSandboxFiles")
    /\ PopDefer(r)
    /\ IF ReturnsError(r)
       THEN \E osErr \in UnmountResults(r) :
              LET res == unmountSandboxFiles(cfg[r], sandbox[r].ID \in mounts, osErr)
              IN /\ retErr' = [retErr EXCEPT ![r] = res.err]
                 /\ log' = Logged(r, "unmountSandboxFiles", res.err, NoNet)
                 /\ mounts' = IF res.mounted THEN mounts ELSE mounts \ {sandbox[r].ID}
       ELSE UNCHANGED <<log, mounts, retErr>>
    /\ UNCHANGED <<vxVars, call, scope, imageConfig, nameIndex, sandboxStore, netns, cni, containers,
                   rootDirs, files, tasks, pc, cfg, sandbox, podNetwork, spec, err>>

\* defer (line 224): err = c.unmountSandboxFiles(sandboxRootDir, config)
DeferredUnmountSandboxFiles(r) ==
    /\ Running(r, "unmountSandboxFiles")
    /\ PopDefer(r)
    /\ IF ReturnsError(r)
       THEN \E osErr \in UnmountResults(r) :
              LET res == unmountSandboxFiles(cfg[r], sandbox[r].ID \in mounts, osErr)
              IN /\ err' = [err EXCEPT ![r] = res.err]
                 /\ log' = Logged(r, "unmountSandboxFiles", res.err, NoNet)
                 /\ mounts' = IF res.mounted THEN mounts ELSE mounts \ {sandbox[r].ID}
       ELSE UNCHANGED <<log, mounts, err>>
    /\ UNCHANGED <<vxVars, call, scope, imageConfig, nameIndex, sandboxStore, netns, cni, containers,
                   rootDirs, files, tasks, pc, cfg, sandbox, podNetwork, spec, retErr>>

\* A mutation of DeferredRemoveAll: when RemoveAll fails, the deferred
\* functions left do not run.
DeferredRemoveAll_Aborts(r) ==
    /\ Running(r, "RemoveAll")
    /\ IF ReturnsError(r)
       THEN \E e \in CompOutcomes :
              /\ log' = Logged(r, "RemoveAll", e, NoNet)
              /\ IF e = Nil THEN PopDefer(r) ELSE defers' = [defers EXCEPT ![r] = <<>>]
              /\ IF e = Nil
                 THEN /\ rootDirs' = rootDirs \ {sandbox[r].ID}
                      /\ files' = [files EXCEPT ![sandbox[r].ID] = {}]
                 ELSE UNCHANGED <<rootDirs, files>>
       ELSE PopDefer(r) /\ UNCHANGED <<log, rootDirs, files>>
    /\ UNCHANGED <<vxVars, call, scope, imageConfig, nameIndex, sandboxStore, netns, cni, containers,
                   mounts, tasks, pc, cfg, sandbox, podNetwork, spec, err, retErr>>

\* defer (line 209): c.os.RemoveAll(sandboxRootDir)
DeferredRemoveAll(r) ==
    /\ Running(r, "RemoveAll")
    /\ PopDefer(r)
    /\ IF ReturnsError(r)
       THEN \E e \in CompOutcomes :
              /\ log' = Logged(r, "RemoveAll", e, NoNet)
              /\ IF e = Nil
                 THEN /\ rootDirs' = rootDirs \ {sandbox[r].ID}
                      /\ files' = [files EXCEPT ![sandbox[r].ID] = {}]
                 ELSE UNCHANGED <<rootDirs, files>>
       ELSE UNCHANGED <<log, rootDirs, files>>
    /\ UNCHANGED <<vxVars, call, scope, imageConfig, nameIndex, sandboxStore, netns, cni, containers,
                   mounts, tasks, pc, cfg, sandbox, podNetwork, spec, err, retErr>>

\* defer (line 193): container.Delete(ctx, containerd.WithSnapshotCleanup)
DeferredContainerDelete(r) ==
    /\ Running(r, "container.Delete")
    /\ PopDefer(r)
    /\ IF ReturnsError(r)
       THEN \E e \in CompOutcomes :
              /\ log' = Logged(r, "container.Delete", e, NoNet)
              /\ containers' = IF e = Nil THEN containers \ {sandbox[r].ID} ELSE containers
       ELSE UNCHANGED <<log, containers>>
    /\ UNCHANGED <<vxVars, call, scope, imageConfig, nameIndex, sandboxStore, netns, cni, rootDirs,
                   files, mounts, tasks, pc, cfg, sandbox, podNetwork, spec, err, retErr>>

\* defer (line 125): c.netPlugin.TearDownPod(podNetwork)
DeferredTearDownPod(r) ==
    /\ Running(r, "TearDownPod")
    /\ PopDefer(r)
    /\ IF ReturnsError(r)
       THEN \E e \in CompOutcomes :
              /\ log' = Logged(r, "TearDownPod", e, podNetwork[r])
              /\ cni' = IF e = Nil THEN cni \ {podNetwork[r]} ELSE cni
       ELSE UNCHANGED <<log, cni>>
    /\ UNCHANGED <<vxVars, call, scope, imageConfig, nameIndex, sandboxStore, netns, containers, rootDirs,
                   files, mounts, tasks, pc, cfg, sandbox, podNetwork, spec, err, retErr>>

\* defer (line 103): sandbox.NetNS.Remove(); sandbox.NetNSPath = ""
DeferredNetNSRemove(r) ==
    /\ Running(r, "NetNS.Remove")
    /\ PopDefer(r)
    /\ IF ReturnsError(r)
       THEN \E e \in CompOutcomes :
              /\ log' = Logged(r, "NetNS.Remove", e, NoNet)
              /\ netns' = IF e = Nil THEN netns \ {sandbox[r].ID} ELSE netns
              /\ sandbox' = [sandbox EXCEPT ![r].NetNSPath = EmptyPath]
       ELSE UNCHANGED <<log, netns, sandbox>>
    /\ UNCHANGED <<vxVars, call, scope, imageConfig, nameIndex, sandboxStore, cni, containers, rootDirs,
                   files, mounts, tasks, pc, cfg, podNetwork, spec, err, retErr>>

\* defer (line 63): c.sandboxNameIndex.ReleaseByName(name)
DeferredReleaseByName(r) ==
    /\ Running(r, "ReleaseByName")
    /\ PopDefer(r)
    /\ IF ReturnsError(r)
       THEN /\ log' = Logged(r, "ReleaseByName", Nil, NoNet)
            /\ nameIndex' = RegistrarReleaseByName(nameIndex, makeSandboxName(cfg[r].metadata))
       ELSE UNCHANGED <<log, nameIndex>>
    /\ UNCHANGED <<vxVars, call, scope, imageConfig, sandboxStore, netns, cni, containers, rootDirs,
                   files, mounts, tasks, pc, cfg, sandbox, podNetwork, spec, err, retErr>>

\* A mutation of Returned: the call returns without running the deferred
\* functions left.
Returned_BeforeDefers(r) ==
    /\ pc[r] = "return"
    /\ pc' = [pc EXCEPT ![r] = "done"]
    /\ UNCHANGED <<envVars, cfg, sandbox, podNetwork, spec, err, retErr, defers, log>>

\* Every deferred function has run: the call returns retErr to the caller.
Returned(r) ==
    /\ pc[r] = "return"
    /\ defers[r] = <<>>
    /\ pc' = [pc EXCEPT ![r] = "done"]
    /\ UNCHANGED <<envVars, cfg, sandbox, podNetwork, spec, err, retErr, defers, log>>

Next ==
    \E r \in Reqs :
       \/ RunPodSandbox(r)
       \/ Reserve(r)
       \/ ensureImageExists(r)
       \/ NewNetNS(r)
       \/ SetUpPod(r)
       \/ GenerateSpec(r)
       \/ GenerateSeccompSpecOpts(r)
       \/ NewContainer(r)
       \/ MkdirAll(r)
       \/ SetupSandboxFiles(r)
       \/ NewTask(r)
       \/ TaskStart(r)
       \/ SandboxStoreAdd(r)
       \/ DeferredTaskDelete(r)
       \/ DeferredUnmountSandboxFiles(r)
       \/ DeferredRemoveAll(r)
       \/ DeferredContainerDelete(r)
       \/ DeferredTearDownPod(r)
       \/ DeferredNetNSRemove(r)
       \/ DeferredReleaseByName(r)
       \/ Returned(r)

Spec == Init /\ [][Next]_vars
SpecConcurrent == InitConcurrent /\ [][Next]_vars
\* RunPodSandbox is sequential code whose calls are synchronous: the goroutine
\* of the request keeps taking its next step.
SpecLive == Init /\ [][Next]_vars /\ WF_vars(Next)

\* ------------------------------------------- direct calls of the helpers
\* The lists parseDNSOptions is called with.
ServerLists == { <<>>, <<"10.0.0.1">>, <<"10.0.0.1", "10.0.0.2">>, <<"10.0.0.2", "10.0.0.1">> }
SearchLists == { <<>>, <<"a.svc">>, <<"a.svc", "b.svc">>,
                 <<"a", "b", "c", "d", "e", "f">>, <<"a", "b", "c", "d", "e", "f", "g">> }
OptionLists == { <<>>, <<"ndots:5">>, <<"ndots:5", "timeout:1">> }

\* The CRI port mappings toCNIPortMappings is called with.
MaxPortMappings == 2
CriMappings ==
    { [HostPort |-> -1, ContainerPort |-> 22, Protocol |-> "TCP", HostIp |-> ""],
      [HostPort |-> 0, ContainerPort |-> 53, Protocol |-> "UDP", HostIp |-> ""],
      [HostPort |-> 8080, ContainerPort |-> 80, Protocol |-> "TCP", HostIp |-> "10.0.0.9"],
      [HostPort |-> 443, ContainerPort |-> 8443, Protocol |-> "UDP", HostIp |-> ""] }
PortMappingLists == UNION { [1..n -> CriMappings] : n \in 0..MaxPortMappings }

\* The call just made, recorded with the one before it.
MadeCall(fn, in, out, e, shm) ==
    [fn |-> fn, in |-> in, out |-> out, err |-> e, config |-> call.config, shm |-> shm,
     prev |-> [fn |-> call.fn, err |-> call.err]]

CallParseDNSOptions ==
    /\ \E servers \in ServerLists, searches \in SearchLists, options \in OptionLists :
         LET res == parseDNSOptions(servers, searches, options)
         IN call' = MadeCall("parseDNSOptions",
                             [servers |-> servers, searches |-> searches, options |-> options],
                             res.content, res.err, call.shm)
    /\ UNCHANGED <<vxVars, scope, imageConfig, nameIndex, sandboxStore, netns, cni,
                   containers, rootDirs, files, mounts, tasks, reqVars>>

CallToCNIPortMappings ==
    /\ \E criPortMappings \in PortMappingLists :
         call' = MadeCall("toCNIPortMappings", criPortMappings,
                          toCNIPortMappings(criPortMappings), Nil, call.shm)
    /\ UNCHANGED <<vxVars, scope, imageConfig, nameIndex, sandboxStore, netns, cni,
                   containers, rootDirs, files, mounts, tasks, reqVars>>

\* setupSandboxFiles on a sandbox root directory whose shm is not mounted.
CallSetupSandboxFiles ==
    /\ call.shm # "mounted"
    /\ \E dnsConfig \in scope.dns, fault \in FileFaults :
         LET res == setupSandboxFiles(call.config, dnsConfig, fault)
         IN /\ fault # "none" => res.err # Nil
            /\ call' = MadeCall("setupSandboxFiles", [dnsConfig |-> dnsConfig, fault |-> fault],
                                [files |-> res.files, mounted |-> res.mounted], res.err,
                                IF res.mounted THEN "mounted"
                                ELSE IF ShmDir \in res.files THEN "dir" ELSE call.shm)
    /\ UNCHANGED <<vxVars, scope, imageConfig, nameIndex, sandboxStore, netns, cni,
                   containers, rootDirs, files, mounts, tasks, reqVars>>

CallUnmountSandboxFiles ==
    /\ \E osErr \in OsUnmountResults(call.shm) :
         LET res == unmountSandboxFiles(call.config, call.shm = "mounted", osErr)
         IN call' = MadeCall("unmountSandboxFiles", [shm |-> call.shm, osErr |-> osErr],
                             [mounted |-> res.mounted], res.err,
                             IF call.shm = "mounted" /\ ~res.mounted THEN "dir" ELSE call.shm)
    /\ UNCHANGED <<vxVars, scope, imageConfig, nameIndex, sandboxStore, netns, cni,
                   containers, rootDirs, files, mounts, tasks, reqVars>>

InitCalls ==
    /\ InitScope(CallsScope)
    /\ call \in { [NoCall EXCEPT !.config = c] : c \in CallsScope.configs }
    /\ InitNetwork(FALSE)

NextCalls ==
    \/ CallParseDNSOptions
    \/ CallToCNIPortMappings
    \/ CallSetupSandboxFiles
    \/ CallUnmountSandboxFiles

SpecCalls == InitCalls /\ [][NextCalls]_vars


\* ------------------------------------------------------- reading the log
Id(r) == GenerateID(r)
Started(r) == pc[r] # "idle"
Done(r) == pc[r] = "done"
Failed(r) == Done(r) /\ retErr[r] # Nil
Called(r, op) == \E i \in DOMAIN log[r] : log[r][i].op = op
Succeeded(r, op) == \E i \in DOMAIN log[r] : log[r][i].op = op /\ log[r][i].err = Nil
FailedCall(r, op) == \E i \in DOMAIN log[r] : log[r][i].op = op /\ log[r][i].err # Nil
\* The compensating actions request r has executed, in order.
CompsRun(r) == [i \in DOMAIN SelectSeq(log[r], LAMBDA e : e.op \in CompOps) |->
                    SelectSeq(log[r], LAMBDA e : e.op \in CompOps)[i].op]
Stored(r) == \E s \in sandboxStore : s.ID = Id(r)
\* Reserve would succeed for the name of request r with a fresh id.
NameFree(r) ==
    RegistrarReserve(nameIndex, makeSandboxName(cfg[r].metadata), NumRequests + 1).err = Nil

\* ------------------------------------------------------------------ C1
\* C1 as stated: after a request that reserved its name returns an error, the
\* sandbox root directory, the network namespace, the container and the task
\* are absent and the name can be reserved again.
C1_AtomicityAsStated ==
    \A r \in Reqs :
        (Failed(r) /\ Succeeded(r, "Reserve")) =>
            /\ Id(r) \notin rootDirs
            /\ Id(r) \notin netns
            /\ Id(r) \notin containers
            /\ tasks[Id(r)] = "none"
            /\ NameFree(r)

\* C1, amended: after a request that reserved its name returns an error, each of
\* the root directory, the network namespace, the container and the task is
\* absent unless its own compensating action failed, and the name can be
\* reserved again in every case.
C1_Atomicity ==
    \A r \in Reqs :
        (Failed(r) /\ Succeeded(r, "Reserve")) =>
            /\ Id(r) \in rootDirs => FailedCall(r, "RemoveAll")
            /\ Id(r) \in netns => FailedCall(r, "NetNS.Remove")
            /\ Id(r) \in containers => FailedCall(r, "container.Delete")
            /\ tasks[Id(r)] # "none" => FailedCall(r, "task.Delete")
            /\ NameFree(r)

\* A request failed at the last step and every resource it made is gone.
C1_Witness ==
    \E r \in Reqs :
        /\ Failed(r) /\ FailedCall(r, "sandboxStore.Add") /\ Succeeded(r, "NewNetNS")
        /\ Id(r) \notin rootDirs /\ Id(r) \notin netns /\ Id(r) \notin containers
        /\ tasks[Id(r)] = "none" /\ NameFree(r)

\* ------------------------------------------------------------------ C2
SameName(a, b) == makeSandboxName(cfg[a].metadata) = makeSandboxName(cfg[b].metadata)
InFlight(r) == pc[r] \notin {"idle", "done"}
\* Request r holds the reservation of its name.
Holds(r) == Succeeded(r, "Reserve") /\ ~Called(r, "ReleaseByName")

\* C2 as stated: of two requests with the same derived name that are in flight
\* together, at most one has succeeded in Reserve.
C2_OneReserveAsStated ==
    \A a, b \in Reqs :
        (a # b /\ InFlight(a) /\ InFlight(b) /\ SameName(a, b)) =>
            ~(Succeeded(a, "Reserve") /\ Succeeded(b, "Reserve"))

\* C2, amended: at any instant at most one request holds the reservation of a
\* name (a second request with that name succeeds in Reserve only after the
\* first has released it), and a request whose Reserve fails returns the
\* Conflict failure having made no other call and provisioned nothing.
C2_NameMutualExclusion ==
    /\ \A a, b \in Reqs : (a # b /\ Started(a) /\ Started(b) /\ SameName(a, b)) =>
                              ~(Holds(a) /\ Holds(b))
    /\ \A r \in Reqs :
          FailedCall(r, "Reserve") =>
              /\ Len(log[r]) = 1
              /\ defers[r] = <<>>
              /\ retErr[r] = Errorf("failed to reserve sandbox name", Errorf("Conflict", Nil))
              /\ Id(r) \notin netns \cup containers \cup rootDirs \cup mounts
              /\ \A n \in cni : n.ID # Id(r)
              /\ files[Id(r)] = {} /\ tasks[Id(r)] = "none" /\ ~Stored(r)

\* A request was rejected with Conflict while another with its name holds it.
C2_Witness ==
    \E a, b \in Reqs :
        /\ a # b /\ SameName(a, b) /\ Holds(a) /\ InFlight(a)
        /\ Done(b) /\ FailedCall(b, "Reserve")

\* ------------------------------------------------------------------ C3
\* The steps a request has to complete, in order.
StepsOf(config) ==
    <<"Reserve", "ensureImageExists">>
    \o (IF config.hostNetwork THEN <<>> ELSE <<"NewNetNS", "SetUpPod">>)
    \o <<"generateSandboxContainerSpec", "generateSeccompSpecOpts", "NewContainer",
         "MkdirAll", "setupSandboxFiles", "NewTask", "task.Start", "sandboxStore.Add">>
AllStepsSucceeded(r) ==
    /\ Started(r)
    /\ \A i \in DOMAIN StepsOf(cfg[r]) : Succeeded(r, StepsOf(cfg[r])[i])

\* C3: a sandbox record is in the sandbox store if and only if every
\* provisioning step of its request succeeded; the record of a request that
\* failed, or that has steps left, is not in the store.
C3_StoredIffAllSteps ==
    \A r \in Reqs :
        /\ Stored(r) <=> AllStepsSucceeded(r)
        /\ Stored(r) => retErr[r] = Nil /\ ~(\E i \in DOMAIN log[r] : log[r][i].err # Nil)

\* A record is in the store.
C3_Witness == \E r \in Reqs : Stored(r) /\ Done(r) /\ ~cfg[r].hostNetwork

\* ------------------------------------------------------------------ C4
NetComps(r) == IF cfg[r].hostNetwork THEN <<>> ELSE <<"TearDownPod", "NetNS.Remove">>
\* The request failed after its task was created.
FailedAfterTask(r) == Failed(r) /\ Succeeded(r, "NewTask")

\* C4 as stated: a request that fails after task creation unmounts the sandbox
\* files, then deletes the task and the container, then removes the root
\* directory, then tears the network down, then releases the name.
C4_RollbackOrderAsStated ==
    \A r \in Reqs :
        FailedAfterTask(r) =>
            CompsRun(r) = <<"unmountSandboxFiles", "task.Delete", "container.Delete", "RemoveAll">>
                          \o NetComps(r) \o <<"ReleaseByName">>

\* C4, amended: a request that fails after task creation deletes the task,
\* then unmounts the sandbox files, then removes the root directory, then
\* deletes the container, then calls TearDownPod and removes the network
\* namespace, then releases the name.
C4_RollbackOrder ==
    \A r \in Reqs :
        FailedAfterTask(r) =>
            CompsRun(r) = <<"task.Delete", "unmountSandboxFiles", "RemoveAll", "container.Delete">>
                          \o NetComps(r) \o <<"ReleaseByName">>

\* A request with its own network namespace failed at task.Start and returned.
C4_Witness ==
    \E r \in Reqs : Failed(r) /\ FailedCall(r, "task.Start") /\ ~cfg[r].hostNetwork


\* ------------------------------------------------------------------ C5
\* The compensating actions that are due when request r returns an error:
\* one for each step that succeeded, the latest step first.
DueComps(r) ==
       (IF Succeeded(r, "NewTask") THEN <<"task.Delete">> ELSE <<>>)
    \o (IF Succeeded(r, "setupSandboxFiles") THEN <<"unmountSandboxFiles">> ELSE <<>>)
    \o (IF Succeeded(r, "MkdirAll") THEN <<"RemoveAll">> ELSE <<>>)
    \o (IF Succeeded(r, "NewContainer") THEN <<"container.Delete">> ELSE <<>>)
    \o (IF Succeeded(r, "SetUpPod") THEN <<"TearDownPod">> ELSE <<>>)
    \o (IF Succeeded(r, "NewNetNS") THEN <<"NetNS.Remove">> ELSE <<>>)
    \o (IF Succeeded(r, "Reserve") THEN <<"ReleaseByName">> ELSE <<>>)

\* C5: when a compensating action of a failed request fails, every other
\* compensating action that is due for the request is executed all the same.
C5_BestEffortRollback ==
    \A r \in Reqs :
        (Failed(r) /\ FailedComps(r) # {}) =>
            \A i \in DOMAIN DueComps(r) : Called(r, DueComps(r)[i])

\* A request returned after the first two of its seven compensating actions failed.
C5_Witness ==
    \E r \in Reqs :
        /\ Failed(r) /\ FailedCall(r, "task.Delete") /\ FailedCall(r, "unmountSandboxFiles")
        /\ Len(CompsRun(r)) = 7

\* ------------------------------------------------------------------ C6
\* The message RunPodSandbox wraps the error of a step in.
MessageOf(op) ==
    CASE op = "Reserve" -> "failed to reserve sandbox name"
      [] op = "ensureImageExists" -> "failed to get sandbox image"
      [] op = "NewNetNS" -> "failed to create network namespace for sandbox"
      [] op = "SetUpPod" -> "failed to setup network for sandbox"
      [] op = "generateSandboxContainerSpec" -> "failed to generate sandbox container spec"
      [] op = "generateSeccompSpecOpts" -> "failed to generate seccomp spec opts"
      [] op = "NewContainer" -> "failed to create containerd container"
      [] op = "MkdirAll" -> "failed to create sandbox root directory"
      [] op = "setupSandboxFiles" -> "failed to setup sandbox files"
      [] op = "NewTask" -> "failed to create task for sandbox"
      [] op = "task.Start" -> "failed to start sandbox container task"
      [] op = "sandboxStore.Add" -> "failed to add sandbox into store"
\* The failed steps of request r (not its failed compensating actions).
FailedSteps(r) == { i \in DOMAIN log[r] : log[r][i].op \notin CompOps /\ log[r][i].err # Nil }
\* The error of the step that made request r return, nil if no step failed.
TriggerError(r) ==
    IF FailedSteps(r) = {} THEN Nil
    ELSE LET i == CHOOSE j \in FailedSteps(r) : \A k \in FailedSteps(r) : j <= k
         IN Errorf(MessageOf(log[r][i].op), log[r][i].err)

\* C6: from the return statement on, the error a request returns is the error
\* of the step that triggered the rollback; no compensating action, failing or
\* not, changes it or makes the request succeed.
C6_ReturnsTriggerError ==
    \A r \in Reqs :
        pc[r] \in {"return", "done"} =>
            /\ retErr[r] = TriggerError(r)
            /\ FailedSteps(r) # {} => retErr[r] # Nil

\* A request returned its step's error although compensating actions failed.
C6_Witness ==
    \E r \in Reqs :
        /\ Failed(r) /\ FailedCall(r, "task.Start")
        /\ FailedCall(r, "unmountSandboxFiles") /\ FailedCall(r, "TearDownPod")

\* ------------------------------------------------------------------ C7
\* The pod networks request r passed to the calls of op.
NetsOf(r, op) == SelectSeq(log[r], LAMBDA e : e.op = op)

\* C7: once SetUpPod has succeeded, a request that returns an error has called
\* TearDownPod exactly once, with the pod network passed to SetUpPod; and
\* TearDownPod is called neither when SetUpPod did not succeed nor when the
\* request succeeds.
C7_TearDownAfterSetUp ==
    \A r \in Reqs :
        /\ (Failed(r) /\ Succeeded(r, "SetUpPod")) =>
              /\ Len(NetsOf(r, "TearDownPod")) = 1
              /\ NetsOf(r, "TearDownPod")[1].net = NetsOf(r, "SetUpPod")[1].net
              /\ NetsOf(r, "SetUpPod")[1].net.NetNS = NetNSPathOf(Id(r))
        /\ Called(r, "TearDownPod") =>
              /\ Succeeded(r, "SetUpPod")
              /\ retErr[r] # Nil
              /\ Len(NetsOf(r, "TearDownPod")) = 1
        /\ Len(NetsOf(r, "SetUpPod")) <= 1

\* A request failed after SetUpPod succeeded, and has returned.
C7_Witness ==
    \E r \in Reqs :
        /\ Failed(r) /\ Succeeded(r, "SetUpPod") /\ FailedCall(r, "NewContainer")
        /\ Called(r, "TearDownPod")

\* ------------------------------------------------------------------ C8
\* C8: a request for a pod in the host network namespace never has a network
\* namespace handle or path, never calls NewNetNS, SetUpPod, TearDownPod or
\* NetNS.Remove, and its generated spec has no network namespace entry.
C8_HostNetwork ==
    \A r \in Reqs :
        (Started(r) /\ cfg[r].hostNetwork) =>
            /\ sandbox[r].NetNS = "nil"
            /\ sandbox[r].NetNSPath = EmptyPath
            /\ Id(r) \notin netns
            /\ \A n \in cni : n.ID # Id(r)
            /\ \A op \in {"NewNetNS", "SetUpPod", "TearDownPod", "NetNS.Remove"} : ~Called(r, op)
            /\ \A n \in spec[r].namespaces : n.type # "network"

\* A host-network request has its spec generated, and succeeded.
C8_Witness ==
    \E r \in Reqs :
        /\ cfg[r].hostNetwork /\ Done(r) /\ Stored(r)
        /\ [type |-> "uts", path |-> EmptyPath] \in spec[r].namespaces

\* ------------------------------------------------------------------ C9
\* The request is past the point where its network namespace is decided.
NetworkDecided(r) ==
    IF cfg[r].hostNetwork THEN Succeeded(r, "ensureImageExists") ELSE Succeeded(r, "NewNetNS")

\* C9 as stated: in the sandbox object of a request past its network step, the
\* namespace path is non-empty if and only if the pod is not in the host
\* network, and the path is set if and only if the handle is, in every state.
C9_PathIffHandleAsStated ==
    \A r \in Reqs :
        (Started(r) /\ NetworkDecided(r)) =>
            /\ sandbox[r].NetNSPath # EmptyPath <=> ~cfg[r].hostNetwork
            /\ sandbox[r].NetNSPath # EmptyPath <=> sandbox[r].NetNS # "nil"

\* C9, amended: in every record of the sandbox store the namespace path is
\* non-empty if and only if the pod is not in the host network, and the path is
\* set if and only if the handle is.  In the sandbox object of a request a path
\* is never set without a handle or for a host-network pod; the handle is set
\* without a path only after the rollback's NetNS.Remove, which clears the
\* path and leaves the handle.
C9_PathIffHandle ==
    /\ \A s \in sandboxStore :
          /\ s.NetNSPath # EmptyPath <=> ~cfg[s.ID].hostNetwork
          /\ s.NetNSPath # EmptyPath <=> s.NetNS # "nil"
    /\ \A r \in Reqs :
          Started(r) =>
              /\ sandbox[r].NetNSPath # EmptyPath => sandbox[r].NetNS # "nil" /\ ~cfg[r].hostNetwork
              /\ (sandbox[r].NetNS # "nil" /\ sandbox[r].NetNSPath = EmptyPath)
                     <=> Called(r, "NetNS.Remove")
              /\ sandbox[r].NetNS # "nil" <=> Succeeded(r, "NewNetNS")

\* A request that was rolled back has a handle and no path.
C9_Witness ==
    \E r \in Reqs :
        /\ Failed(r) /\ sandbox[r].NetNS # "nil" /\ sandbox[r].NetNSPath = EmptyPath

\* ----------------------------------------------------------------- C10
EmptyEntrypoint == Len(imageConfig.Entrypoint) = 0
InvalidEntrypoint ==
    Errorf("failed to generate sandbox container spec",
           Errorf("invalid empty entrypoint in image config", Nil))
\* The spec generation of request r found the entrypoint empty.
EntrypointRejected(r) ==
    \E i \in DOMAIN log[r] : /\ log[r][i].op = "generateSandboxContainerSpec"
                             /\ log[r][i].err = Errorf("invalid empty entrypoint in image config", Nil)
ExecutionSteps == {"NewContainer", "MkdirAll", "setupSandboxFiles", "NewTask", "task.Start",
                   "sandboxStore.Add"}

\* C10 as stated: a request whose spec generation rejects the empty entrypoint
\* returns the invalid-config error and has created no network namespace, set
\* up no CNI network, and made no container, root directory or task.
C10_EmptyEntrypointAsStated ==
    \A r \in Reqs :
        (Done(r) /\ EntrypointRejected(r)) =>
            /\ retErr[r] = InvalidEntrypoint
            /\ \A op \in {"NewNetNS", "SetUpPod"} \cup ExecutionSteps : ~Called(r, op)

\* C10, amended: with an empty entrypoint in the image config no request
\* succeeds, and none makes a container, a root directory, sandbox files or a
\* task; the request whose spec generation rejects the entrypoint returns the
\* invalid-config error.  A pod with its own network namespace has had the
\* namespace created and SetUpPod called before the spec is generated: the
\* request calls TearDownPod and NetNS.Remove before it returns.
C10_EmptyEntrypoint ==
    \A r \in Reqs :
        (Started(r) /\ EmptyEntrypoint) =>
            /\ \A op \in ExecutionSteps : ~Called(r, op)
            /\ Id(r) \notin containers \cup rootDirs \cup mounts
            /\ files[Id(r)] = {} /\ tasks[Id(r)] = "none" /\ ~Stored(r)
            /\ Done(r) => retErr[r] # Nil
            /\ (EntrypointRejected(r) /\ pc[r] \in {"return", "done"}) =>
                  retErr[r] = InvalidEntrypoint
            /\ (Done(r) /\ EntrypointRejected(r) /\ ~cfg[r].hostNetwork) =>
                  /\ Succeeded(r, "NewNetNS") /\ Succeeded(r, "SetUpPod")
                  /\ CompsRun(r) = <<"TearDownPod", "NetNS.Remove", "ReleaseByName">>

\* A request of a pod with its own network namespace returned the
\* invalid-config error.
C10_Witness ==
    \E r \in Reqs :
        /\ Done(r) /\ EntrypointRejected(r) /\ ~cfg[r].hostNetwork
        /\ retErr[r] = InvalidEntrypoint /\ Id(r) \notin netns


\* ------------------------------------------------------------------ C11
\* The words of a list separated by single spaces, built from the left.
RECURSIVE Words(_)
Words(ws) ==
    IF Len(ws) = 0 THEN ""
    ELSE IF Len(ws) = 1 THEN ws[1]
    ELSE Words(SubSeq(ws, 1, Len(ws) - 1)) \o " " \o ws[Len(ws)]
\* The lines of a resolver file: one search line, one nameserver line per
\* server, one options line; a line is absent when its list is empty.
ResolvLines(in) ==
       (IF in.searches # <<>> THEN << "search " \o Words(in.searches) >> ELSE <<>>)
    \o [i \in 1..Len(in.servers) |-> "nameserver " \o in.servers[i]]
    \o (IF in.options # <<>> THEN << "options " \o Words(in.options) >> ELSE <<>>)
\* The lines, each terminated by a newline.
RECURSIVE Unlines(_)
Unlines(lines) == IF lines = <<>> THEN "" ELSE Head(lines) \o "\n" \o Unlines(Tail(lines))
SpecExampleDns ==
    [servers |-> <<"10.0.0.1", "10.0.0.2">>, searches |-> <<"a.svc", "b.svc">>,
     options |-> <<"ndots:5">>]
SpecExampleResolv ==
    "search a.svc b.svc\nnameserver 10.0.0.1\nnameserver 10.0.0.2\noptions ndots:5\n"

\* C11: called with at most 6 search domains, parseDNSOptions returns no error
\* and the search line (if any searches), then one nameserver line per server
\* in input order, then the options line (if any options), each terminated by
\* a newline; all lists empty gives the empty string.
C11_DnsRendering ==
    (call.fn = "parseDNSOptions" /\ Len(call.in.searches) <= 6) =>
        /\ call.err = Nil
        /\ call.out = Unlines(ResolvLines(call.in))
        /\ call.in = SpecExampleDns => call.out = SpecExampleResolv
        /\ (call.in.servers = <<>> /\ call.in.searches = <<>> /\ call.in.options = <<>>)
              => call.out = ""
\* C11 witness: the example is rendered with its two nameserver lines.
C11_Witness ==
    /\ call.fn = "parseDNSOptions"
    /\ call.in = SpecExampleDns
    /\ call.err = Nil
    /\ call.out = SpecExampleResolv


\* ------------------------------------------------------------------ C12
TooManySearches(dnsConfig) == dnsConfig.present /\ Len(dnsConfig.Searches) > 6
ParseError ==
    Errorf("failed to parse sandbox DNSConfig",
           Errorf("DNSOption.Searches has more than 6 domains", Nil))
\* C12 as stated: when the DNS config has more than 6 search domains (and the
\* copy of the hosts file did not fail first), setupSandboxFiles fails with
\* the DNS config error and has written no file under the sandbox root.
C12_SearchOverflowAsStated ==
    (/\ call.fn = "setupSandboxFiles"
     /\ TooManySearches(call.in.dnsConfig)
     /\ call.in.fault # "CopyFile hosts") =>
        /\ call.err = ParseError
        /\ call.out.files = {}
\* C12: when the DNS config has more than 6 search domains, setupSandboxFiles
\* fails; unless the copy of the hosts file failed first, the error is the DNS
\* config error and the hosts file, copied before the DNS config is parsed, is
\* the only file written: no resolv.conf, no shm directory, no mount.
C12_SearchOverflow ==
    (call.fn = "setupSandboxFiles" /\ TooManySearches(call.in.dnsConfig)) =>
        /\ call.err # Nil
        /\ ~call.out.mounted
        /\ \A f \in call.out.files : f.path \notin {"resolv.conf", "shm"}
        /\ IF call.in.fault = "CopyFile hosts"
           THEN call.out.files = {}
           ELSE call.err = ParseError /\ call.out.files = {HostsFile}
\* C12 witness: a setup with 7 search domains has failed after the hosts copy.
C12_Witness ==
    /\ call.fn = "setupSandboxFiles"
    /\ Len(call.in.dnsConfig.Searches) = 7
    /\ call.in.fault = "none"
    /\ call.err = ParseError
    /\ call.out.files = {HostsFile}


\* ------------------------------------------------------------------ C13
\* The input mappings with a positive host port, in input order.
Forwarded(criPortMappings) == SelectSeq(criPortMappings, LAMBDA m : m.HostPort > 0)
LowerCaseName == [TCP |-> "tcp", UDP |-> "udp"]
\* C13: toCNIPortMappings outputs, in input order, one entry for each input
\* mapping with a positive host port and none for the others; an entry has the
\* host port, container port and host IP of its input and the protocol name
\* in lower case.
C13_PortMappings ==
    call.fn = "toCNIPortMappings" =>
        /\ Len(call.out) = Len(Forwarded(call.in))
        /\ \A i \in 1..Len(call.out) :
              /\ call.out[i].HostPort = Forwarded(call.in)[i].HostPort
              /\ call.out[i].HostPort > 0
              /\ call.out[i].ContainerPort = Forwarded(call.in)[i].ContainerPort
              /\ call.out[i].HostIP = Forwarded(call.in)[i].HostIp
              /\ call.out[i].Protocol = LowerCaseName[Forwarded(call.in)[i].Protocol]
\* C13 witness: a mapping with host port 0 is dropped and 8080/80/TCP is kept.
C13_Witness ==
    /\ call.fn = "toCNIPortMappings"
    /\ Len(call.in) = 2
    /\ call.in[1].HostPort = 0
    /\ call.in[2].HostPort = 8080
    /\ call.out = << [HostPort |-> 8080, ContainerPort |-> 80, Protocol |-> "tcp",
                      HostIP |-> "10.0.0.9"] >>


\* ------------------------------------------------------------------ C14
\* The last call was unmountSandboxFiles, it succeeded and left shm as it was.
UnmountWasNoOp ==
    /\ call.err = Nil
    /\ call.shm = call.in.shm
    /\ call.out.mounted = (call.in.shm = "mounted")
Provisioned(r) ==
    \/ Id(r) \in netns
    \/ \E n \in cni : n.ID = Id(r)
    \/ Id(r) \in containers
    \/ Id(r) \in rootDirs
    \/ files[Id(r)] # {}
    \/ Id(r) \in mounts
    \/ tasks[Id(r)] # "none"
    \/ Stored(r)
\* C15: the first call of a request is Reserve; no other call is made and
\* nothing is provisioned unless Reserve succeeded; a request that returns
\* an error after Reserve succeeded has released its name.
C15_ReserveFirst ==
    \A r \in Reqs :
        /\ log[r] # <<>> => log[r][1].op = "Reserve"
        /\ (Len(log[r]) > 1 \/ Provisioned(r)) => Succeeded(r, "Reserve")
        /\ (Failed(r) /\ Succeeded(r, "Reserve")) =>
              /\ Called(r, "ReleaseByName")
              /\ <<makeSandboxName(cfg[r].metadata), Id(r)>> \notin nameIndex
\* C15 witness: one request was refused the name and returned with nothing
\* provisioned; another failed after Reserve and has released the name.
C15_Witness ==
    \E a, b \in Reqs :
        /\ Failed(a) /\ FailedCall(a, "Reserve") /\ Len(log[a]) = 1 /\ ~Provisioned(a)
        /\ Failed(b) /\ Succeeded(b, "Reserve") /\ FailedCall(b, "MkdirAll")
        /\ Called(b, "ReleaseByName")


\* ------------------------------------------------------------------ C16
\* The calls of the forward steps request r has made, in order.
Forward(r) == SelectSeq(log[r], LAMBDA e : e.op \notin CompOps)
\* C16: the forward steps of a request are made in the order name reserved,
\* network namespace and pod network (unless host network), spec built,
\* container created, root directory created, sandbox files set up, task
\* created, task started, stored; a step is made only after the one before it
\* succeeded, each step at most once, and none after the rollback has begun.
C16_ForwardOrder ==
    \A r \in Reqs :
        /\ Len(Forward(r)) <= Len(StepsOf(cfg[r]))
        /\ \A i \in DOMAIN Forward(r) :
              /\ Forward(r)[i].op = StepsOf(cfg[r])[i]
              /\ i < Len(Forward(r)) => Forward(r)[i].err = Nil
        /\ \A i, j \in DOMAIN log[r] :
              (i < j /\ log[r][i].op \in CompOps) => log[r][j].op \in CompOps
        /\ \A i, j \in DOMAIN log[r] :
              (i # j /\ log[r][i].op \notin CompOps) => log[r][i].op # log[r][j].op
\* C16 witness: a request with its own network namespace made the eleven
\* steps up to task.Start, once each, and stopped at the failure of the last.
C16_Witness ==
    \E r \in Reqs :
        /\ Done(r) /\ ~cfg[r].hostNetwork
        /\ Failed(r) /\ Len(Forward(r)) = 11
        /\ Forward(r)[11].op = "task.Start" /\ Forward(r)[11].err # Nil


\* ------------------------------------------------------------------ C17
\* The compensating action of a step.
CompOf ==
    [op \in {"Reserve", "NewNetNS", "SetUpPod", "NewContainer", "MkdirAll",
             "setupSandboxFiles", "NewTask"} |->
        CASE op = "Reserve" -> "ReleaseByName"
          [] op = "NewNetNS" -> "NetNS.Remove"
          [] op = "SetUpPod" -> "TearDownPod"
          [] op = "NewContainer" -> "container.Delete"
          [] op = "MkdirAll" -> "RemoveAll"
          [] op = "setupSandboxFiles" -> "unmountSandboxFiles"
          [] op = "NewTask" -> "task.Delete"]
\* The steps with a compensating action that request r completed, in order.
Completed(r) == SelectSeq(log[r], LAMBDA e : e.op \in DOMAIN CompOf /\ e.err = Nil)
\* Their compensating actions, the one of the step completed last first.
ReverseComps(r) ==
    [i \in 1..Len(Completed(r)) |-> CompOf[Completed(r)[Len(Completed(r)) - i + 1].op]]
\* C17: the compensating actions a failed request has executed when it
\* returns are those of the steps it completed, in the reverse of the order
\* of completion, and no other; while it is returning, the ones executed so
\* far are the first of that sequence.  A request that succeeds executes none.
C17_ExactReverseRollback ==
    \A r \in Reqs :
        /\ Failed(r) => CompsRun(r) = ReverseComps(r)
        /\ Len(CompsRun(r)) <= Len(ReverseComps(r))
        /\ \A i \in DOMAIN CompsRun(r) : CompsRun(r)[i] = ReverseComps(r)[i]
        /\ retErr[r] = Nil => CompsRun(r) = <<>>
\* C17 witness: setupSandboxFiles failed; the five steps completed before it
\* were undone in reverse order and nothing was unmounted.
C17_Witness ==
    \E r \in Reqs :
        /\ Failed(r) /\ FailedCall(r, "setupSandboxFiles")
        /\ CompsRun(r) = <<"RemoveAll", "container.Delete", "TearDownPod", "NetNS.Remove",
                           "ReleaseByName">>


\* ------------------------------------------------------------------ C18
ResolvWritten == [path |-> "resolv.conf", from |-> "dns"] \in call.out.files
ResolvCopied == [path |-> "resolv.conf", from |-> "host"] \in call.out.files
NothingToRender(dnsConfig) ==
    dnsConfig.Servers = <<>> /\ dnsConfig.Searches = <<>> /\ dnsConfig.Options = <<>>
\* C18 as stated: a successful setupSandboxFiles writes a synthesized
\* resolv.conf if the pod has a DNS config and copies the host's resolv.conf
\* if and only if it has none; never both and never neither.
C18_ResolvConfAsStated ==
    (call.fn = "setupSandboxFiles" /\ call.err = Nil) =>
        /\ ResolvWritten # ResolvCopied
        /\ call.in.dnsConfig.present => ResolvWritten
        /\ ResolvCopied <=> ~call.in.dnsConfig.present
\* C18: a successful setupSandboxFiles either writes a synthesized resolv.conf
\* or copies the host's, never both and never neither; it writes one if and
\* only if the pod has a DNS config with a server, a search domain or an
\* option, and copies the host's when there is no DNS config or it is empty.
C18_ResolvConf ==
    (call.fn = "setupSandboxFiles" /\ call.err = Nil) =>
        /\ ResolvWritten # ResolvCopied
        /\ Cardinality({ f \in call.out.files : f.path = "resolv.conf" }) = 1
        /\ ResolvWritten <=>
              (call.in.dnsConfig.present /\ ~NothingToRender(call.in.dnsConfig))
        /\ ResolvCopied <=>
              (~call.in.dnsConfig.present \/ NothingToRender(call.in.dnsConfig))
\* C18 witness: the pod has a DNS config with nothing in it and the host's
\* resolv.conf was copied.
C18_Witness ==
    /\ call.fn = "setupSandboxFiles"
    /\ call.err = Nil
    /\ call.in.dnsConfig.present
    /\ NothingToRender(call.in.dnsConfig)
    /\ ResolvCopied
    /\ ~ResolvWritten


\* ------------------------------------------------------------------ C19
StatError == Errorf("host /dev/shm is not available for host ipc", Fault)
\* The files setupSandboxFiles made for request r are still in place.
FilesInPlace(r) ==
    /\ Succeeded(r, "setupSandboxFiles")
    /\ ~Called(r, "unmountSandboxFiles")
    /\ ~Called(r, "RemoveAll")
\* C19: after a successful setupSandboxFiles the sandbox has its shm
\* directory with a tmpfs mounted if and only if the pod does not use the host
\* IPC namespace; a host-IPC pod never has the directory or the mount; when
\* the host shm path cannot be stat'ed, setupSandboxFiles fails, RunPodSandbox
\* returns that error and has undone the steps completed before.
C19_SharedMemory ==
    \A r \in Reqs :
        /\ FilesInPlace(r) =>
              /\ (ShmDir \in files[Id(r)] /\ Id(r) \in mounts) <=> ~cfg[r].hostIpc
              /\ ShmDir \in files[Id(r)] <=> Id(r) \in mounts
        /\ cfg[r].hostIpc => (ShmDir \notin files[Id(r)] /\ Id(r) \notin mounts)
        /\ (\E i \in DOMAIN log[r] :
               log[r][i].op = "setupSandboxFiles" /\ log[r][i].err = StatError) =>
              /\ cfg[r].hostIpc
              /\ pc[r] \in {"return", "done"}
              /\ retErr[r] = Errorf("failed to setup sandbox files", StatError)
              /\ ~Succeeded(r, "setupSandboxFiles") /\ ~Called(r, "NewTask")
              /\ Done(r) => (CompsRun(r) = ReverseComps(r) /\ ~Stored(r))
\* C19 witness: the stat of the host shm path failed for a host-IPC pod and
\* the request returned after undoing the root directory and the container.
C19_Witness ==
    \E r \in Reqs :
        /\ Failed(r) /\ cfg[r].hostIpc
        /\ \E i \in DOMAIN log[r] :
              log[r][i].op = "setupSandboxFiles" /\ log[r][i].err = StatError
        /\ Called(r, "RemoveAll") /\ Called(r, "container.Delete")
        /\ Id(r) \notin mounts


\* ------------------------------------------------------------------ C20
\* Request r returned success and its sandbox is stored.
Committed(r) == retErr[r] = Nil /\ Stored(r) /\ CompsRun(r) = <<>>
\* Request r returned an error after executing every compensating action due.
RolledBack(r) == retErr[r] # Nil /\ ~Stored(r) /\ CompsRun(r) = ReverseComps(r)
\* C20: every request that started eventually returns; when it has returned
\* no deferred function is pending and it is either committed (stored, success
\* returned) or rolled back (error returned, every compensating action due
\* executed), never both.
C20_RunsToCompletion ==
    /\ \A r \in Reqs : Started(r) ~> Done(r)
    /\ [](\A r \in Reqs :
            Done(r) => /\ defers[r] = <<>>
                       /\ Committed(r) # RolledBack(r)
                       /\ Committed(r) \/ RolledBack(r))
\* C20 witness: a request returned an error with its seven compensating
\* actions executed and no deferred function left.
C20_Witness ==
    \E r \in Reqs :
        /\ Done(r) /\ RolledBack(r) /\ defers[r] = <<>>
        /\ Len(CompsRun(r)) = 7


\* ------------------------------------------------------------------ C21
\* Request r made the resource of step op and has not undone it itself.
Owns(r, op) == Succeeded(r, op) /\ ~Called(r, CompOf[op])
\* C21: what a request has reserved or made stays in place until the request
\* itself undoes it, whatever the other requests do: the name stays reserved
\* to its id, and its network namespace, container, root directory and task
\* stay; a request rejected at Reserve does not call ReleaseByName.
C21_Isolation ==
    \A r \in Reqs :
        /\ FailedCall(r, "Reserve") => ~Called(r, "ReleaseByName")
        /\ Owns(r, "Reserve") => <<makeSandboxName(cfg[r].metadata), Id(r)>> \in nameIndex
        /\ Owns(r, "NewNetNS") => Id(r) \in netns
        /\ Owns(r, "NewContainer") => Id(r) \in containers
        /\ Owns(r, "MkdirAll") => Id(r) \in rootDirs
        /\ Owns(r, "NewTask") => tasks[Id(r)] # "none"
\* C21 witness: a request was rejected with Conflict and returned; the
\* request that holds the name still has it and everything it made.
C21_Witness ==
    \E a, b \in Reqs :
        /\ a # b /\ SameName(a, b)
        /\ Done(a) /\ FailedCall(a, "Reserve")
        /\ Owns(b, "Reserve") /\ Owns(b, "NewNetNS") /\ Owns(b, "NewContainer")
        /\ Owns(b, "MkdirAll") /\ Owns(b, "NewTask")
        /\ <<makeSandboxName(cfg[b].metadata), Id(b)>> \in nameIndex
        /\ Id(b) \in netns \cap containers \cap rootDirs


\* ------------------------------------------------------------------ C22
\* Request r returned success.
ReturnedSuccess(r) == Done(r) /\ retErr[r] = Nil
\* The name of request r is reserved to its id; another id is refused it.
NameKept(r) ==
    /\ <<makeSandboxName(cfg[r].metadata), Id(r)>> \in nameIndex
    /\ RegistrarReserve(nameIndex, makeSandboxName(cfg[r].metadata), NumRequests + 1).err
         = Errorf("Conflict", Nil)
\* C22 as stated: after a successful return no compensating action has been
\* executed, the name is still reserved to the sandbox id, and the network
\* namespace, the CNI wiring, the container, the root directory, the shm mount
\* and the task are all present.
C22_SuccessKeepsAllAsStated ==
    \A r \in Reqs :
        ReturnedSuccess(r) =>
            /\ CompsRun(r) = <<>>
            /\ NameKept(r)
            /\ Id(r) \in netns
            /\ \E n \in cni : n.ID = Id(r)
            /\ Id(r) \in containers
            /\ Id(r) \in rootDirs
            /\ Id(r) \in mounts
            /\ tasks[Id(r)] = "running"
\* C22: after a successful return no compensating action has been executed,
\* the name is still reserved to the sandbox id, and everything the request
\* made is present: the container, the root directory with its files and the
\* running task, the network namespace and the CNI wiring unless the pod uses
\* the host network, the shm mount unless the pod uses the host IPC namespace.
C22_SuccessKeepsAll ==
    \A r \in Reqs :
        ReturnedSuccess(r) =>
            /\ CompsRun(r) = <<>>
            /\ NameKept(r)
            /\ Id(r) \in netns <=> ~cfg[r].hostNetwork
            /\ (\E n \in cni : n.ID = Id(r)) <=> ~cfg[r].hostNetwork
            /\ Id(r) \in containers
            /\ Id(r) \in rootDirs
            /\ HostsFile \in files[Id(r)]
            /\ Id(r) \in mounts <=> ~cfg[r].hostIpc
            /\ tasks[Id(r)] = "running"
            /\ Stored(r)
\* C22 witness: a pod with its own network and IPC namespaces was created
\* and everything made for it is in place.
C22_Witness ==
    \E r \in Reqs :
        /\ ReturnedSuccess(r) /\ ~cfg[r].hostNetwork /\ ~cfg[r].hostIpc
        /\ NameKept(r) /\ CompsRun(r) = <<>>
        /\ Id(r) \in netns \cap containers \cap rootDirs \cap mounts
        /\ tasks[Id(r)] = "running"


\* ------------------------------------------------ the vxlan lease handler
\* Number of events in a batch.
MaxBatchLen == 2

\* The lease of a remote host.
Leases ==
    { [Subnet |-> [IP |-> "10.1.1.0", PrefixLen |-> 24], PublicIP |-> "192.168.0.11",
       VtepMAC |-> "aa:aa"] }
EventOf(type, lease, backendType, valid) ==
    [Type |-> type,
     Lease |-> [Subnet |-> lease.Subnet,
                Attrs |-> [BackendType |-> backendType, PublicIP |-> lease.PublicIP,
                           BackendData |-> [valid |-> valid, VtepMAC |-> lease.VtepMAC]]]]
OneLease == CHOOSE l \in Leases : l.VtepMAC = "aa:aa"
\* The events of a batch: the lease added and removed, a lease of another
\* backend, a lease whose backend data does not decode, an unknown event type.
Events ==
    { EventOf(t, l, "vxlan", TRUE) : t \in {"EventAdded", "EventRemoved"}, l \in Leases }
    \cup { EventOf("EventAdded", OneLease, "host-gw", TRUE),
           EventOf("EventAdded", OneLease, "vxlan", FALSE),
           EventOf("EventUnknown", OneLease, "vxlan", TRUE) }
Batches == UNION { [1..n -> Events] : n \in 1..MaxBatchLen }

\* json.Unmarshal(attrs.BackendData, &vxlanAttrs)
Unmarshal(data) ==
    IF data.valid THEN [err |-> Nil, vxlanAttrs |-> [VtepMAC |-> data.VtepMAC]]
    ELSE [err |-> Fault, vxlanAttrs |-> [VtepMAC |-> ""]]

neighbor(IP, MAC) == [IP |-> IP, MAC |-> MAC]
\* netlink.NeighSet and netlink.NeighDel on a table of neighbours.
NeighSet(table, n) == { m \in table : m.IP # n.IP } \cup {n}
NeighDel(table, n) == table \ {n}
\* netlink.RouteReplace and netlink.RouteDel on the routes of the host.
NetlinkRouteReplace(rs, route) == { r \in rs : r.Dst # route.Dst } \cup {route}
NetlinkRouteDel(rs, route) == rs \ {route}

\* The locals of the loop body for the event handled now.
event == batch[evIdx]
sn == event.Lease.Subnet
attrs == event.Lease.Attrs
vxlanAttrs == Unmarshal(attrs.BackendData).vxlanAttrs
vxlanRoute == [LinkIndex |-> "vxlan", Dst |-> sn, Gw |-> sn.IP, Flags |-> "onlink"]
directRoute == [LinkIndex |-> "", Dst |-> sn, Gw |-> attrs.PublicIP, Flags |-> ""]
ArpOf(ev) == neighbor(ev.Lease.Subnet.IP, ev.Lease.Attrs.BackendData.VtepMAC)
FdbOf(ev) == neighbor(ev.Lease.Attrs.PublicIP, ev.Lease.Attrs.BackendData.VtepMAC)

Tables == [arp |-> arp, fdb |-> fdb, routes |-> routes]
\* continue: the loop goes on with the next event.
Continue(outcome) ==
    /\ evIdx' = evIdx + 1
    /\ vpc' = "range"
    /\ handled' = Append(handled, outcome)
Goto(p) == vpc' = p /\ UNCHANGED <<evIdx, handled>>

\* Run: a batch of events is received and handed to handleSubnetEvents.
Run ==
    /\ vpc = "idle"
    /\ \E evtBatch \in Batches :
         /\ batch' = evtBatch
         /\ evIdx' = 1
         /\ vpc' = "range"
    /\ UNCHANGED <<dev, directRoutingOK, before, evCalls, handled, arp, fdb, routes>>
    /\ UNCHANGED <<call, scope, imageConfig, nameIndex, sandboxStore, netns, cni, containers,
                   rootDirs, files, mounts, tasks, reqVars>>

\* The loop of handleSubnetEvents has gone through the batch: the function
\* returns to Run and its locals are gone.
BatchHandled ==
    /\ vpc = "range"
    /\ evIdx > Len(batch)
    /\ vpc' = "idle"
    /\ batch' = <<>>
    /\ evIdx' = 1
    /\ directRoutingOK' = FALSE
    /\ before' = NoTables
    /\ evCalls' = <<>>
    /\ handled' = <<>>
    /\ UNCHANGED <<dev, arp, fdb, routes>>
    /\ UNCHANGED <<call, scope, imageConfig, nameIndex, sandboxStore, netns, cni, containers,
                   rootDirs, files, mounts, tasks, reqVars>>

\* The head of the loop body: the checks of the lease, the route lookup when
\* direct routing is on, and the switch on the event type.
NextEvent ==
    /\ vpc = "range"
    /\ evIdx <= Len(batch)
    /\ before' = Tables
    /\ evCalls' = <<>>
    /\ IF attrs.BackendType # "vxlan"
       THEN Continue("ignored") /\ UNCHANGED directRoutingOK
       ELSE IF Unmarshal(attrs.BackendData).err # Nil
       THEN Continue("undecodable") /\ UNCHANGED directRoutingOK
       ELSE \E routeGet \in IF dev.directRouting THEN {"error", "direct", "gateway"}
                                                 ELSE {"none"} :
              IF routeGet = "error"
              THEN Continue("no route") /\ UNCHANGED directRoutingOK
              ELSE /\ directRoutingOK' = (routeGet = "direct")
                   /\ CASE event.Type = "EventAdded" ->
                             Goto(IF routeGet = "direct" THEN "direct.RouteReplace" ELSE "AddARP")
                        [] event.Type = "EventRemoved" ->
                             Goto(IF routeGet = "direct" THEN "direct.RouteDel" ELSE "DelARP")
                        [] OTHER -> Continue("unknown")
    /\ UNCHANGED <<dev, batch, arp, fdb, routes>>
    /\ UNCHANGED <<call, scope, imageConfig, nameIndex, sandboxStore, netns, cni, containers,
                   rootDirs, files, mounts, tasks, reqVars>>

\* netlink.RouteReplace(&directRoute) (line 139)
DirectRouteReplace ==
    /\ vpc = "direct.RouteReplace"
    /\ \E e \in {Nil, Fault} :
         /\ evCalls' = Append(evCalls, [op |-> "RouteReplace", err |-> e])
         /\ routes' = IF e = Nil THEN NetlinkRouteReplace(routes, directRoute) ELSE routes
         /\ IF e = Nil THEN Continue("ok") ELSE Continue("failed")
    /\ UNCHANGED <<dev, batch, directRoutingOK, before, arp, fdb>>
    /\ UNCHANGED <<call, scope, imageConfig, nameIndex, sandboxStore, netns, cni, containers,
                   rootDirs, files, mounts, tasks, reqVars>>

\* nw.dev.AddARP (line 146); a failure ends the event.
AddARP ==
    /\ vpc = "AddARP"
    /\ \E e \in {Nil, Fault} :
         /\ evCalls' = Append(evCalls, [op |-> "AddARP", err |-> e])
         /\ arp' = IF e = Nil THEN NeighSet(arp, neighbor(sn.IP, vxlanAttrs.VtepMAC)) ELSE arp
         /\ IF e = Nil THEN Goto("AddFDB") ELSE Continue("failed")
    /\ UNCHANGED <<dev, batch, directRoutingOK, before, fdb, routes>>
    /\ UNCHANGED <<call, scope, imageConfig, nameIndex, sandboxStore, netns, cni, containers,
                   rootDirs, files, mounts, tasks, reqVars>>

\* A mutation of AddFDB: after a failure the ARP entry is left in place.
AddFDB_NoCleanup ==
    /\ vpc = "AddFDB"
    /\ \E e \in {Nil, Fault} :
         /\ evCalls' = Append(evCalls, [op |-> "AddFDB", err |-> e])
         /\ fdb' = IF e = Nil THEN NeighSet(fdb, neighbor(attrs.PublicIP, vxlanAttrs.VtepMAC)) ELSE fdb
         /\ IF e = Nil THEN Goto("RouteReplace") ELSE Continue("failed")
    /\ UNCHANGED <<dev, batch, directRoutingOK, before, arp, routes>>
    /\ UNCHANGED <<call, scope, imageConfig, nameIndex, sandboxStore, netns, cni, containers,
                   rootDirs, files, mounts, tasks, reqVars>>

\* nw.dev.AddFDB (line 152); after a failure the ARP entry is cleaned up.
AddFDB ==
    /\ vpc = "AddFDB"
    /\ \E e \in {Nil, Fault} :
         /\ evCalls' = Append(evCalls, [op |-> "AddFDB", err |-> e])
         /\ fdb' = IF e = Nil THEN NeighSet(fdb, neighbor(attrs.PublicIP, vxlanAttrs.VtepMAC)) ELSE fdb
         /\ IF e = Nil THEN Goto("RouteReplace") ELSE Goto("AddFDB.DelARP")
    /\ UNCHANGED <<dev, batch, directRoutingOK, before, arp, routes>>
    /\ UNCHANGED <<call, scope, imageConfig, nameIndex, sandboxStore, netns, cni, containers,
                   rootDirs, files, mounts, tasks, reqVars>>

\* nw.dev.DelARP after AddFDB failed (line 156), then continue.
DelARPAfterAddFDB ==
    /\ vpc = "AddFDB.DelARP"
    /\ \E e \in {Nil, Fault} :
         /\ evCalls' = Append(evCalls, [op |-> "DelARP", err |-> e])
         /\ arp' = IF e = Nil THEN NeighDel(arp, neighbor(event.Lease.Subnet.IP, vxlanAttrs.VtepMAC)) ELSE arp
         /\ IF e = Nil THEN Continue("failed") ELSE Continue("failed")
    /\ UNCHANGED <<dev, batch, directRoutingOK, before, fdb, routes>>
    /\ UNCHANGED <<call, scope, imageConfig, nameIndex, sandboxStore, netns, cni, containers,
                   rootDirs, files, mounts, tasks, reqVars>>

\* netlink.RouteReplace(&vxlanRoute) (line 165), the last of the three; after a
\* failure the ARP and FDB entries are cleaned up.
RouteReplace ==
    /\ vpc = "RouteReplace"
    /\ \E e \in {Nil, Fault} :
         /\ evCalls' = Append(evCalls, [op |-> "RouteReplace", err |-> e])
         /\ routes' = IF e = Nil THEN NetlinkRouteReplace(routes, vxlanRoute) ELSE routes
         /\ IF e = Nil THEN Continue("ok") ELSE Goto("RouteReplace.DelARP")
    /\ UNCHANGED <<dev, batch, directRoutingOK, before, arp, fdb>>
    /\ UNCHANGED <<call, scope, imageConfig, nameIndex, sandboxStore, netns, cni, containers,
                   rootDirs, files, mounts, tasks, reqVars>>

\* nw.dev.DelARP after RouteReplace failed (line 169).
DelARPAfterRouteReplace ==
    /\ vpc = "RouteReplace.DelARP"
    /\ \E e \in {Nil, Fault} :
         /\ evCalls' = Append(evCalls, [op |-> "DelARP", err |-> e])
         /\ arp' = IF e = Nil THEN NeighDel(arp, neighbor(event.Lease.Subnet.IP, vxlanAttrs.VtepMAC)) ELSE arp
         /\ IF e = Nil THEN Goto("RouteReplace.DelFDB") ELSE Goto("RouteReplace.DelFDB")
    /\ UNCHANGED <<dev, batch, directRoutingOK, before, fdb, routes>>
    /\ UNCHANGED <<call, scope, imageConfig, nameIndex, sandboxStore, netns, cni, containers,
                   rootDirs, files, mounts, tasks, reqVars>>

\* nw.dev.DelFDB after RouteReplace failed (line 173), then continue.
DelFDBAfterRouteReplace ==
    /\ vpc = "RouteReplace.DelFDB"
    /\ \E e \in {Nil, Fault} :
         /\ evCalls' = Append(evCalls, [op |-> "DelFDB", err |-> e])
         /\ fdb' = IF e = Nil THEN NeighDel(fdb, neighbor(event.Lease.Attrs.PublicIP, vxlanAttrs.VtepMAC)) ELSE fdb
         /\ IF e = Nil THEN Continue("failed") ELSE Continue("failed")
    /\ UNCHANGED <<dev, batch, directRoutingOK, before, arp, routes>>
    /\ UNCHANGED <<call, scope, imageConfig, nameIndex, sandboxStore, netns, cni, containers,
                   rootDirs, files, mounts, tasks, reqVars>>

\* netlink.RouteDel(&directRoute) (line 183); its error is only logged.
DirectRouteDel ==
    /\ vpc = "direct.RouteDel"
    /\ \E e \in {Nil, Fault} :
         /\ evCalls' = Append(evCalls, [op |-> "RouteDel", err |-> e])
         /\ routes' = IF e = Nil THEN NetlinkRouteDel(routes, directRoute) ELSE routes
         /\ IF e = Nil THEN Continue("ok") ELSE Continue("ok")
    /\ UNCHANGED <<dev, batch, directRoutingOK, before, arp, fdb>>
    /\ UNCHANGED <<call, scope, imageConfig, nameIndex, sandboxStore, netns, cni, containers,
                   rootDirs, files, mounts, tasks, reqVars>>

\* nw.dev.DelARP of a removed lease (line 190); its error is only logged.
DelARP ==
    /\ vpc = "DelARP"
    /\ \E e \in {Nil, Fault} :
         /\ evCalls' = Append(evCalls, [op |-> "DelARP", err |-> e])
         /\ arp' = IF e = Nil THEN NeighDel(arp, neighbor(sn.IP, vxlanAttrs.VtepMAC)) ELSE arp
         /\ IF e = Nil THEN Goto("DelFDB") ELSE Goto("DelFDB")
    /\ UNCHANGED <<dev, batch, directRoutingOK, before, fdb, routes>>
    /\ UNCHANGED <<call, scope, imageConfig, nameIndex, sandboxStore, netns, cni, containers,
                   rootDirs, files, mounts, tasks, reqVars>>

\* nw.dev.DelFDB of a removed lease (line 194); its error is only logged.
DelFDB ==
    /\ vpc = "DelFDB"
    /\ \E e \in {Nil, Fault} :
         /\ evCalls' = Append(evCalls, [op |-> "DelFDB", err |-> e])
         /\ fdb' = IF e = Nil THEN NeighDel(fdb, neighbor(attrs.PublicIP, vxlanAttrs.VtepMAC)) ELSE fdb
         /\ IF e = Nil THEN Goto("RouteDel") ELSE Goto("RouteDel")
    /\ UNCHANGED <<dev, batch, directRoutingOK, before, arp, routes>>
    /\ UNCHANGED <<call, scope, imageConfig, nameIndex, sandboxStore, netns, cni, containers,
                   rootDirs, files, mounts, tasks, reqVars>>

\* netlink.RouteDel(&vxlanRoute) of a removed lease (line 198).
RouteDel ==
    /\ vpc = "RouteDel"
    /\ \E e \in {Nil, Fault} :
         /\ evCalls' = Append(evCalls, [op |-> "RouteDel", err |-> e])
         /\ routes' = IF e = Nil THEN NetlinkRouteDel(routes, vxlanRoute) ELSE routes
         /\ IF e = Nil THEN Continue("ok") ELSE Continue("ok")
    /\ UNCHANGED <<dev, batch, directRoutingOK, before, arp, fdb>>
    /\ UNCHANGED <<call, scope, imageConfig, nameIndex, sandboxStore, netns, cni, containers,
                   rootDirs, files, mounts, tasks, reqVars>>

InitVxlan ==
    /\ InitScope(CallsScope)
    /\ call = NoCall
    /\ \E directRouting \in BOOLEAN : InitNetwork(directRouting)

NextVxlan ==
    \/ Run
    \/ NextEvent
    \/ BatchHandled
    \/ DirectRouteReplace
    \/ AddARP
    \/ AddFDB
    \/ DelARPAfterAddFDB
    \/ RouteReplace
    \/ DelARPAfterRouteReplace
    \/ DelFDBAfterRouteReplace
    \/ DirectRouteDel
    \/ DelARP
    \/ DelFDB
    \/ RouteDel

SpecVxlan == InitVxlan /\ [][NextVxlan]_vars


\* ------------------------------------------------------------------ C23
\* An event of the batch has just been handled: evCalls and before are its.
EventDone == vpc = "range" /\ evIdx > 1
LastEvent == batch[evIdx - 1]
\* The event just handled added a lease on the encapsulated path.
EncapAddDone ==
    /\ EventDone
    /\ LastEvent.Type = "EventAdded"
    /\ handled[evIdx - 1] \in {"ok", "failed"}
    /\ ~directRoutingOK
VxlanRouteOf(ev) ==
    [LinkIndex |-> "vxlan", Dst |-> ev.Lease.Subnet, Gw |-> ev.Lease.Subnet.IP,
     Flags |-> "onlink"]
HasArp(t, ev) == ArpOf(ev) \in t.arp
HasFdb(t, ev) == FdbOf(ev) \in t.fdb
HasRoute(t, ev) == VxlanRouteOf(ev) \in t.routes
AllThree(t, ev) == HasArp(t, ev) /\ HasFdb(t, ev) /\ HasRoute(t, ev)
NoneOfThree(t, ev) == ~HasArp(t, ev) /\ ~HasFdb(t, ev) /\ ~HasRoute(t, ev)
OpsOf(cs) == [i \in DOMAIN cs |-> cs[i].op]
CleanupsSucceeded ==
    \A i \in DOMAIN evCalls : evCalls[i].op \in {"DelARP", "DelFDB"} => evCalls[i].err = Nil

\* C23 as stated: when every cleanup deletion succeeded, a lease-added event
\* on the encapsulated path leaves either the ARP entry, the FDB entry and
\* the route of the lease all installed, or none of them.
C23_AllOrNoneAsStated ==
    (EncapAddDone /\ CleanupsSucceeded) =>
        (AllThree(Tables, LastEvent) \/ NoneOfThree(Tables, LastEvent))

\* C23: a lease-added event on the encapsulated path calls AddARP, AddFDB and
\* RouteReplace in that order, each after the one before it succeeded; a
\* failure of AddFDB is followed by DelARP, a failure of RouteReplace by
\* DelARP and DelFDB; a deletion that succeeds leaves its entry absent and
\* nothing else is touched; if none of the three entries was installed before
\* the event and every cleanup deletion succeeded, the event leaves all three
\* installed or none; every event of the batch is handled, whatever the
\* outcome of the ones before it.
C23_AddLease ==
    /\ vpc # "idle" => (Len(handled) = evIdx - 1 /\ evIdx <= Len(batch) + 1)
    /\ \A i, j \in DOMAIN evCalls :
          i < j => /\ evCalls[i].op = "RouteReplace" => evCalls[j].op \notin {"AddARP", "AddFDB"}
                   /\ evCalls[i].op = "AddFDB" => evCalls[j].op # "AddARP"
    /\ EncapAddDone =>
          LET ev == LastEvent
              ops == OpsOf(evCalls)
              ok(i) == evCalls[i].err = Nil
          IN /\ \/ /\ ops = <<"AddARP">> /\ ~ok(1)
                   /\ Tables = before
                \/ /\ ops = <<"AddARP", "AddFDB", "DelARP">> /\ ok(1) /\ ~ok(2)
                   /\ ok(3) => ~HasArp(Tables, ev)
                   /\ fdb = before.fdb /\ routes = before.routes
                \/ /\ ops = <<"AddARP", "AddFDB", "RouteReplace", "DelARP", "DelFDB">>
                   /\ ok(1) /\ ok(2) /\ ~ok(3)
                   /\ ok(4) => ~HasArp(Tables, ev)
                   /\ ok(5) => ~HasFdb(Tables, ev)
                   /\ routes = before.routes
                \/ /\ ops = <<"AddARP", "AddFDB", "RouteReplace">> /\ ok(1) /\ ok(2) /\ ok(3)
                   /\ AllThree(Tables, ev)
             /\ (handled[evIdx - 1] = "ok") <=> (Len(ops) = 3 /\ ops[3] = "RouteReplace")
             /\ (CleanupsSucceeded /\ NoneOfThree(before, ev)) =>
                   (AllThree(Tables, ev) \/ NoneOfThree(Tables, ev))
\* C23 witness: the route of a lease could not be installed, the ARP and FDB
\* entries were deleted again and nothing of the lease is left; the next
\* event of the batch is about to be handled.
C23_Witness ==
    /\ EncapAddDone
    /\ OpsOf(evCalls) = <<"AddARP", "AddFDB", "RouteReplace", "DelARP", "DelFDB">>
    /\ CleanupsSucceeded
    /\ NoneOfThree(before, LastEvent)
    /\ NoneOfThree(Tables, LastEvent)
    /\ handled = <<"failed">>
    /\ Len(batch) = 2

====
